---- MODULE Spec2Model ----
(***************************************************************************)
(* A model of the trashgb emulator core: the MMU (src/src/mmu.rs), the CPU *)
(* executor and the frame driver game_loop (src/src/cpu.rs).               *)
(*                                                                         *)
(* The MMU is one record, the CPU's fields are separate variables, and the *)
(* position inside game_loop is the variable loc:                          *)
(*   "idle"   game_loop is not running (the host event loop owns the CPU)  *)
(*   "fetch"  head of the body of `while ticks < 456`, before step()       *)
(*   "irq"    after `ticks += self.step()`, before `if self.ime {..}`      *)
(*   "eol"    the while loop of the current line has just been left        *)
(* Bytes fetched from ROM (opcodes and immediates) are inputs: every fetch *)
(* draws one instruction from a menu.                                      *)
(* The harness specifications (SpecTimer, SpecMem, SpecMapper, SpecJoypad)  *)
(* call Mmu methods directly; call records the last one.                   *)
(* SpecStack, SpecAlu and SpecR8 call Cpu::step directly on short programs *)
(* and SpecPpu calls the scanline renderer of src/src/ppu.rs.  SpecBanks   *)
(* gives every mapper-register write to the Mbc1 of src/src/mapper.rs too. *)
(***************************************************************************)
EXTENDS Integers, Sequences, FiniteSets, TLC

VARIABLES
    loc,      \* position inside Cpu::game_loop
    line,     \* `line` of `for line in 0..154`
    ticks,    \* `ticks` of game_loop
    dt,       \* the value the last step() returned
    last,     \* the instruction the last step() executed, and IME at its fetch
    pc, sp, ime, state, a,   \* Cpu.pc, Cpu.sp, Cpu.ime, Cpu.state, registers.a
    mmu,      \* the Mmu: cartridge, memory arrays, mapper registers, timer, joypad
    ret,      \* what the last Mmu::increment_timer call returned
    steps,    \* number of instructions / method calls made so far (bounded runs)
    call,     \* the last Mmu method the host or a harness called, with its arguments
    regs,     \* Cpu.registers other than a: b, c, d, e, h, l and the four flags
    frame,    \* the host's frame buffer, as far as it has been observed or drawn
    hist,     \* the CPU a harness run started from and the instructions run since
    mapper    \* the Mbc1 of mapper.rs and the banks it has published

vars == <<loc, line, ticks, dt, last, pc, sp, ime, state, a, mmu, ret, steps,
          call, regs, frame, hist, mapper>>

\* the variables only the instruction and renderer harnesses change
rest == <<frame, hist, mapper>>

-----------------------------------------------------------------------------
(* Bounds of the model *)

\* instructions executed in a run of Spec
MaxSteps == 6
\* words the modelled stack window holds below the loaded stack pointer
MaxStack == 2
\* Mmu method calls in a run of SpecTimer
MaxCalls == 4

-----------------------------------------------------------------------------
(* Program constants *)

\* `for line in 0..154`
LinesPerFrame == 154
\* `while ticks < 456`
TicksPerLine == 456
\* `if line < 144` / `if line == 144`
VBlankLine == 144

\* I/O register offsets in Mmu.io (address - 0xFF00)
IoP1 == 0
IoDIV == 4
IoTIMA == 5
IoTMA == 6
IoTAC == 7
IoIF == 15
IoLY == 68
IoLCDC == 64
IoSCY == 66
IoSCX == 67
IoBGP == 71
IoOBP0 == 72
IoWY == 74
IoWX == 75
IoLYC == 69

\* opcodes decoded by Cpu::step
OpNOP == 0
OpJR == 24
OpLDmSP == 8
OpLDSP == 49
OpLDA == 62
OpHALT == 118
OpJP == 195
OpRETI == 217
OpLDHwr == 224
OpLDCA == 226
OpLDmA == 234
OpADDSP == 232
OpLDHrd == 240
OpLDHLSP == 248
OpLDAm == 250
OpLDAC == 242
OpDAA == 39
OpADD == 128
OpSUB == 144
OpRET == 201
OpRST == 255
OpCB == 203
OpCALL == 205
OpPOPAF == 241
OpPUSHAF == 245
OpDI == 243
OpEI == 251

-----------------------------------------------------------------------------
(* Bit operations on bytes *)

Bit(v, k) == (v \div (2 ^ k)) % 2

And8(x, y) ==
    LET B(k) == Bit(x, k) * Bit(y, k) * (2 ^ k)
    IN  B(0) + B(1) + B(2) + B(3) + B(4) + B(5) + B(6) + B(7)

Or8(x, y) ==
    LET B(k) == (IF Bit(x, k) + Bit(y, k) > 0 THEN 1 ELSE 0) * (2 ^ k)
    IN  B(0) + B(1) + B(2) + B(3) + B(4) + B(5) + B(6) + B(7)

\* `x & !(1 << k)`
ClearBit(v, k) == v - Bit(v, k) * (2 ^ k)

\* `as u8` of a u16 and `>> 8`
\* u16 arithmetic as a build without overflow checks computes it
U16(n) == n % 65536

Lo(w) == w % 256
Hi(w) == (w \div 256) % 256

-----------------------------------------------------------------------------
(* The MMU *)

IoRegs == {IoP1, IoDIV, IoTIMA, IoTMA, IoTAC, IoIF, IoLY, IoLYC}

Buttons == {"a", "b", "select", "start", "right", "left", "up", "down"}

\* The stack pointer the guest loads (LD SP,0xFFFE) and the HRAM cells below it
SpImms == {65534}
StackTop == CHOOSE t \in SpImms : TRUE
StackFloor == StackTop - 2 * MaxStack
HramCells == StackFloor .. (StackTop - 1)

\* A zero-filled array (`[0; N]`) is held as the cells stored so far: a cell
\* outside the domain still has its initial 0.
Load(arr, k) == IF k \in DOMAIN arr THEN arr[k] ELSE 0
Store(arr, k, v) == (k :> v) @@ arr
Zeroes == [x \in {} |-> 0]

\* Mmu::new.  rom describes the Vec of banks (empty until load_game), eram is
\* indexed by <<bank, offset>>, hram by address.
MmuNew ==
    [ rom        |-> [banks |-> 0, rom_code |-> 0, ram_code |-> 0],
      vram       |-> Zeroes,
      eram       |-> Zeroes,
      wram1      |-> Zeroes,
      wram2      |-> Zeroes,
      oam        |-> Zeroes,
      io         |-> [r \in IoRegs |-> 0],
      hram       |-> [c \in HramCells |-> 0],
      ie         |-> 0,
      rom_size   |-> 0,
      ram_size   |-> 0,
      ram_enable |-> FALSE,
      rom_bank   |-> 1,
      rom_mode   |-> 0,
      timer      |-> 0,
      window_counter |-> 0,
      joypad     |-> [b \in Buttons |-> FALSE] ]

\* The cartridge files considered: the header's ROM-size and RAM-size codes;
\* the file holds the 2 << rom_code banks its header declares.
file_banks(cart) == 2 * (2 ^ cart.rom_code)

\* `2 << self.rom[0][0x148]` on u8: bits shifted out are lost; a shift by 8 or
\* more overflows (panic with overflow checks, amount masked to 3 bits without)
shl_overflows(code) == code >= 8
rom_size_of(code) == (2 * (2 ^ (code % 8))) % 256

\* `match self.rom[0][0x149]`
ram_size_of(code) ==
    IF code = 2 THEN 1
    ELSE IF code = 3 THEN 4
    ELSE IF code = 4 THEN 16
    ELSE IF code = 5 THEN 8
    ELSE 0

\* Mmu::load_game of a file that does not make it panic
load_game(m, cart) ==
    [m EXCEPT !.rom      = [banks |-> file_banks(cart), rom_code |-> cart.rom_code,
                            ram_code |-> cart.ram_code],
              !.rom_size = rom_size_of(cart.rom_code),
              !.ram_size = ram_size_of(cart.ram_code)]

\* the bytes of the embedded bootstrap image and of the cartridge file: the
\* header codes at 0x148 and 0x149 of bank 0, elsewhere a byte that differs
\* from bank to bank
Bootstrap(off) == (off * 3 + 49) % 256
RomByte(rom, bank, off) ==
    IF bank = 0 /\ off = 328 THEN rom.rom_code
    ELSE IF bank = 0 /\ off = 329 THEN rom.ram_code
    ELSE (bank + off) % 256

\* Joypad::read_state
read_state(j, select) ==
    LET clr(pressed, k) == IF pressed THEN 2 ^ k ELSE 0
    IN  IF select
        THEN 15 - clr(j["a"], 0) - clr(j["b"], 1)
                - clr(j["select"], 2) - clr(j["start"], 3)
        ELSE 15 - clr(j["right"], 0) - clr(j["left"], 1)
                - clr(j["up"], 2) - clr(j["down"], 3)

\* the `match (self.io[0x00] & 0b0011_0000) >> 4` of write_byte and joypad_*
joypad_latch(j, io0) ==
    LET sel == (io0 \div 16) % 4
        hi  == io0 - (io0 % 16)
    IN  CASE sel = 0 -> Or8((hi + read_state(j, TRUE)) % 256, read_state(j, FALSE))
          [] sel = 1 -> (hi + read_state(j, TRUE)) % 256
          [] sel = 2 -> (hi + read_state(j, FALSE)) % 256
          [] sel = 3 -> Or8(io0, 15)

\* what a call yields when it panics instead of returning
Panic == -1

\* `n % d`, which panics on a zero divisor
rem(n, d) == IF d = 0 THEN Panic ELSE n % d

\* the places a read is served from; "open" is the constant 0xFF
Open == [area |-> "open", bank |-> 0, off |-> 0]
Place(area, bank, off) == [area |-> area, bank |-> bank, off |-> off]

\* `self.rom[bank][off]` and `self.eram[bank][off]`: an index past the end of
\* the Vec panics
rom_at(m, bank, off) ==
    IF bank = Panic \/ bank >= m.rom.banks
    THEN Place("panic", 0, 0)
    ELSE Place("rom", bank, off)
eram_at(m, bank, off) ==
    IF bank >= m.ram_size THEN Place("panic", 0, 0) ELSE Place("eram", bank, off)

\* a low bank that ignores the banking mode
low_bank_fixed(m) == 0

\* the bank read at 0000-3FFF: `if self.rom_mode == 0 { 0 } else
\* { (rom_bank & 0b0110_0000) % rom_size }`
low_bank(m) ==
    IF m.rom_mode = 0 THEN 0 ELSE rem(And8(m.rom_bank, 96), m.rom_size)

\* the bank read at 4000-7FFF: the `match self.rom_bank`, arms in order
high_bank(m) ==
    LET n == m.rom_bank
    IN  IF n <= 1 THEN 1
        ELSE IF n < 96 /\ n < m.rom_size THEN n
        ELSE IF And8(n, 31) = 0 THEN 1
        ELSE rem(n, m.rom_size)

\* the external RAM bank of a read or write: `(rom_bank & 0b0110_0000) >> 5`
\* if `rom_mode == 1 && ram_size > 1`, else 0
ram_bank(m) ==
    IF m.rom_mode = 1 /\ m.ram_size > 1 THEN And8(m.rom_bank, 96) \div 32 ELSE 0

\* the `match address` of Mmu::read_byte: where the byte comes from
locate(m, address) ==
    IF address <= 255
    THEN IF Load(m.io, 80) = 0 THEN Place("bootstrap", 0, address)
         ELSE rom_at(m, low_bank(m), address)
    ELSE IF address <= 16383 THEN rom_at(m, low_bank(m), address)
    ELSE IF address <= 32767
    THEN IF m.rom_size < 2 THEN Open
         ELSE rom_at(m, high_bank(m), address - 16384)
    ELSE IF address <= 40959 THEN Place("vram", 0, address - 32768)
    ELSE IF address <= 49151
    THEN IF m.ram_enable /\ m.ram_size > 0
         THEN eram_at(m, ram_bank(m), address - 40960)
         ELSE Open
    ELSE IF address <= 53247 THEN Place("wram1", 0, address - 49152)
    ELSE IF address <= 57343 THEN Place("wram2", 0, address - 53248)
    ELSE IF address <= 65023 THEN Open
    ELSE IF address <= 65183 THEN Place("oam", 0, address - 65024)
    ELSE IF address <= 65279 THEN Open
    ELSE IF address <= 65407 THEN Place("io", 0, address - 65280)
    ELSE IF address <= 65534 THEN Place("hram", 0, address)
    ELSE Place("ie", 0, 0)

\* the byte held at a place
fetch(m, p) ==
    CASE p.area = "bootstrap" -> Bootstrap(p.off)
      [] p.area = "rom"   -> RomByte(m.rom, p.bank, p.off)
      [] p.area = "vram"  -> Load(m.vram, p.off)
      [] p.area = "eram"  -> Load(m.eram, <<p.bank, p.off>>)
      [] p.area = "wram1" -> Load(m.wram1, p.off)
      [] p.area = "wram2" -> Load(m.wram2, p.off)
      [] p.area = "oam"   -> Load(m.oam, p.off)
      [] p.area = "io"    -> Load(m.io, p.off)
      [] p.area = "hram"  -> Load(m.hram, p.off)
      [] p.area = "ie"    -> m.ie
      [] p.area = "open"  -> 255
      [] p.area = "panic" -> Panic

\* Mmu::read_byte: the byte returned, or Panic
read_byte(m, address) == fetch(m, locate(m, address))

\* Mmu::read_word
read_word(m, address) ==
    read_byte(m, U16(address + 1)) * 256 + read_byte(m, address)

\* a DMA that takes the value itself as the source address
dma_start_unshifted(value) == value

\* `let start = (value as u16) << 8`
dma_start(value) == value * 256

\* a RAM enable decoded from the whole byte instead of its low nibble
ram_enable_exact(m, value) == value = 10 /\ m.ram_size > 0

\* `value & 0x0F == 0x0A && self.ram_size > 0`
ram_enable_of(m, value) == value % 16 = 10 /\ m.ram_size > 0

\* a write to the echo or the prohibited range that also lands in work RAM
mirrored(m, address, value) ==
    [m EXCEPT !.wram1 = Store(@, address % 4096, value)]

\* the `{}` arms of write_byte (echo RAM and FEA0-FEFF): the write is dropped
ignored(m, address, value) == m

\* Mmu::write_byte.  The call panics when write_panics (below) holds; the
\* result is meant for the calls that return.
RECURSIVE write_byte(_, _, _)
RECURSIVE dma(_, _, _, _)

\* `for i in 0..0xA0 { self.write_byte(0xFE00 + i, self.read_byte(start + i)) }`:
\* the iterations lo .. hi-1 in order; half is the Mmu after the first half of
\* them, on which the second half runs
dma(m, start, lo, hi) ==
    IF hi = lo + 1
    THEN write_byte(m, 65024 + lo, read_byte(m, start + lo))
    ELSE LET mid == (lo + hi) \div 2
         IN  CHOOSE r \in {dma(half, start, mid, hi) :
                              half \in {dma(m, start, lo, mid)}} : TRUE

write_byte(m, address, value) ==
    IF address = 65280
    THEN [m EXCEPT !.io[IoP1] = joypad_latch(m.joypad, value)]
    ELSE LET m1 == IF address = 65284 THEN [m EXCEPT !.timer = 0] ELSE m
         IN  IF address = 65350 THEN dma(m1, dma_start(value), 0, 160)
             ELSE IF address <= 8191
             THEN [m1 EXCEPT !.ram_enable = ram_enable_of(m1, value)]
             ELSE IF address <= 16383
             THEN [m1 EXCEPT !.rom_bank = Or8(And8(@, 224), And8(value, 31))]
             ELSE IF address <= 24575
             THEN [m1 EXCEPT !.rom_bank = Or8(And8(@, 31), And8(value, 3) * 32)]
             ELSE IF address <= 32767
             THEN [m1 EXCEPT !.rom_mode = value % 2]
             ELSE IF address <= 40959
             THEN [m1 EXCEPT !.vram = Store(@, address - 32768, value)]
             ELSE IF address <= 49151
             THEN IF m1.ram_enable
                  THEN [m1 EXCEPT !.eram =
                           Store(@, <<ram_bank(m1), address - 40960>>, value)]
                  ELSE m1
             ELSE IF address <= 53247
             THEN [m1 EXCEPT !.wram1 = Store(@, address - 49152, value)]
             ELSE IF address <= 57343
             THEN [m1 EXCEPT !.wram2 = Store(@, address - 53248, value)]
             ELSE IF address <= 65023 THEN ignored(m1, address, value)
             ELSE IF address <= 65183
             THEN [m1 EXCEPT !.oam = Store(@, address - 65024, value)]
             ELSE IF address <= 65279 THEN ignored(m1, address, value)
             ELSE IF address <= 65407
             THEN [m1 EXCEPT !.io = Store(@, address - 65280, value)]
             ELSE IF address <= 65534
             THEN [m1 EXCEPT !.hram = Store(@, address, value)]
             ELSE [m1 EXCEPT !.ie = value]

\* the calls of write_byte that panic: a DMA whose source read panics, or an
\* external RAM store past the end of `eram`
write_panics(m, address, value) ==
    \/ /\ address = 65350
       /\ \E i \in 0 .. 159 : read_byte(m, dma_start(value) + i) = Panic
    \/ /\ address >= 40960 /\ address <= 49151
       /\ m.ram_enable
       /\ ram_bank(m) >= m.ram_size

\* Mmu::write_word
write_word(m, address, value) ==
    write_byte(write_byte(m, address, Lo(value)), U16(address + 1), Hi(value))

\* the `shift` selected by TAC in Mmu::increment_timer
timer_shift(tac) ==
    CASE tac % 4 = 0 -> 10
      [] tac % 4 = 1 -> 4
      [] tac % 4 = 2 -> 6
      [] tac % 4 = 3 -> 8

\* Mmu::increment_timer: the MMU after the call and the value returned
increment_timer(m, cycles) ==
    LET t4    == cycles * 4
        timer == (m.timer + (t4 % 65536)) % 65536
        m1    == [m EXCEPT !.io[IoDIV] = Hi(m.timer)]
        sh    == timer_shift(m1.io[IoTAC])
        edge  == Bit(m1.io[IoTAC], 2) # 0
                 /\ (timer \div (2 ^ sh)) # (m.timer \div (2 ^ sh))
        tima  == (m1.io[IoTIMA] + 1) % 256
    IN  IF edge
        THEN IF tima = 0
             THEN [mmu |-> [m1 EXCEPT !.io[IoTIMA] = m1.io[IoTMA], !.timer = timer],
                   ret |-> TRUE]
             ELSE [mmu |-> [m1 EXCEPT !.io[IoTIMA] = tima, !.timer = timer],
                   ret |-> FALSE]
        ELSE [mmu |-> [m1 EXCEPT !.timer = timer], ret |-> FALSE]

\* Mmu::joypad_a .. Mmu::joypad_right
joypad_set(m, b, pressed) ==
    LET j  == [m.joypad EXCEPT ![b] = pressed]
        m1 == [m EXCEPT !.joypad = j, !.io[IoP1] = joypad_latch(j, m.io[IoP1])]
    IN  IF pressed THEN [m1 EXCEPT !.io[IoIF] = Or8(m1.io[IoIF], 16)] ELSE m1

-----------------------------------------------------------------------------
(* The CPU executor *)

\* `imm8 as i8`
Signed8(b) == IF b >= 128 THEN b - 256 ELSE b

\* Registers::new, without a
RegistersNew ==
    [b |-> 210, c |-> 32, d |-> 41, e |-> 120, h |-> 222, l |-> 11,
     zero |-> FALSE, subtract |-> FALSE, half_carry |-> FALSE, carry |-> FALSE]

\* `flag as u8`
AsU8(flag) == IF flag THEN 1 ELSE 0

\* Flags::to_u8 with the flags in the low nibble
to_u8_low(f) ==
    AsU8(f.zero) * 8 + AsU8(f.subtract) * 4 + AsU8(f.half_carry) * 2
    + AsU8(f.carry)

\* Flags::to_u8
to_u8(f) ==
    AsU8(f.zero) * 128 + AsU8(f.subtract) * 64 + AsU8(f.half_carry) * 32
    + AsU8(f.carry) * 16

\* Flags::set_from_u8
set_from_u8(f, value) ==
    [f EXCEPT !.zero = Bit(value, 7) = 1,
              !.subtract = Bit(value, 6) = 1,
              !.half_carry = Bit(value, 5) = 1,
              !.carry = Bit(value, 4) = 1]

\* R8::from_u8 numbers the operands B, C, D, E, H, L, (HL), A.  Operand 6 goes
\* through Mmu::get_mut_byte, which src/src/mmu.rs does not have: the model
\* covers the register operands.
R8Regs == {0, 1, 2, 3, 4, 5, 7}

\* Registers::get_r8 followed by `.get()`, on a CPU record s
get_r8(s, k) ==
    CASE k = 0 -> s.regs.b
      [] k = 1 -> s.regs.c
      [] k = 2 -> s.regs.d
      [] k = 3 -> s.regs.e
      [] k = 4 -> s.regs.h
      [] k = 5 -> s.regs.l
      [] k = 7 -> s.a

\* Registers::get_r8 followed by `.set(v)`
set_r8(s, k, v) ==
    CASE k = 0 -> [s EXCEPT !.regs.b = v]
      [] k = 1 -> [s EXCEPT !.regs.c = v]
      [] k = 2 -> [s EXCEPT !.regs.d = v]
      [] k = 3 -> [s EXCEPT !.regs.e = v]
      [] k = 4 -> [s EXCEPT !.regs.h = v]
      [] k = 5 -> [s EXCEPT !.regs.l = v]
      [] k = 7 -> [s EXCEPT !.a = v]

\* add_a_r8
add_a_r8(s, k) ==
    LET r8 == get_r8(s, k)
        result == (s.a + r8) % 256
    IN  [s EXCEPT !.regs.zero = result = 0,
                  !.regs.carry = s.a + r8 > 255,
                  !.regs.subtract = FALSE,
                  !.regs.half_carry = (s.a % 16) + (r8 % 16) > 15,
                  !.a = result]

\* sub_a_r8 that never reports a borrow
sub_a_r8_no_borrow(s, k) ==
    LET r8 == get_r8(s, k)
        result == (s.a - r8) % 256
    IN  [s EXCEPT !.regs.zero = result = 0,
                  !.regs.carry = FALSE,
                  !.regs.subtract = TRUE,
                  !.regs.half_carry = (s.a % 16) < (r8 % 16),
                  !.a = result]

\* sub_a_r8
sub_a_r8(s, k) ==
    LET r8 == get_r8(s, k)
        result == (s.a - r8) % 256
    IN  [s EXCEPT !.regs.zero = result = 0,
                  !.regs.carry = s.a < r8,
                  !.regs.subtract = TRUE,
                  !.regs.half_carry = (s.a % 16) < (r8 % 16),
                  !.a = result]

\* inc_r8
inc_r8(s, k) ==
    LET r8 == get_r8(s, k)
        result == (r8 + 1) % 256
    IN  set_r8([s EXCEPT !.regs.subtract = FALSE,
                         !.regs.zero = result = 0,
                         !.regs.half_carry = (r8 % 16) + 1 > 15],
               k, result)

\* dec_r8 without its `flags.subtract.set(true)`
dec_r8_keeps_subtract(s, k) ==
    LET r8 == get_r8(s, k)
        result == (r8 - 1) % 256
    IN  set_r8([s EXCEPT !.regs.zero = result = 0,
                         !.regs.half_carry = (r8 % 16) < 1],
               k, result)

\* dec_r8
dec_r8(s, k) ==
    LET r8 == get_r8(s, k)
        result == (r8 - 1) % 256
    IN  set_r8([s EXCEPT !.regs.subtract = TRUE,
                         !.regs.zero = result = 0,
                         !.regs.half_carry = (r8 % 16) < 1],
               k, result)

\* res_b3_r8 that clears the bit below (`r8 & !(1 << bit_index)` one off)
res_b3_r8_shifted(s, bit_index, k) ==
    set_r8(s, k, ClearBit(get_r8(s, k), (bit_index + 7) % 8))

\* res_b3_r8: `r8 & !(1 << bit_index)`
res_b3_r8(s, bit_index, k) == set_r8(s, k, ClearBit(get_r8(s, k), bit_index))

\* set_b3_r8: `r8 | (1 << bit_index)`
set_b3_r8(s, bit_index, k) == set_r8(s, k, Or8(get_r8(s, k), 2 ^ bit_index))

\* daa without the 0x60 adjustment of the high digit
daa_low_digit(s) ==
    LET f == s.regs
        adjust == IF f.half_carry \/ (~f.subtract /\ s.a % 16 > 9) THEN 6 ELSE 0
        reg_a == IF f.subtract THEN (s.a - adjust) % 256
                 ELSE (s.a + adjust) % 256
    IN  [s EXCEPT !.regs.zero = reg_a = 0,
                  !.regs.half_carry = FALSE,
                  !.a = reg_a]

\* daa
daa(s) ==
    LET f == s.regs
        lo == IF f.half_carry \/ (~f.subtract /\ s.a % 16 > 9) THEN 6 ELSE 0
        high == f.carry \/ (~f.subtract /\ s.a > 153)
        adjust == lo + (IF high THEN 96 ELSE 0)
        reg_a == IF f.subtract THEN (s.a - adjust) % 256
                 ELSE (s.a + adjust) % 256
    IN  [s EXCEPT !.regs.carry = f.carry \/ high,
                  !.regs.zero = reg_a = 0,
                  !.regs.half_carry = FALSE,
                  !.a = reg_a]

\* the word `call imm16` pushes, were it the address of the call itself
return_address_of_call(p) == p

\* the word `call imm16` pushes: `self.pc + 3`
return_address(p) == p + 3

\* the opcodes of the register forms: `inc r8`, `dec r8`, `add a, r8`,
\* `sub a, r8`, and the second byte of `res b3, r8` and `set b3, r8`
IncOf(k) == 4 + 8 * k
DecOf(k) == 5 + 8 * k
AddOf(k) == OpADD + k
SubOf(k) == OpSUB + k
ResOf(bit_index, k) == 128 + 8 * bit_index + k
SetOf(bit_index, k) == 192 + 8 * bit_index + k

\* add_sp_imm8: the sum is made in i32 and cut to u16
add_sp_imm8(s, imm8) ==
    [s EXCEPT !.sp = U16(s.sp + Signed8(imm8)),
              !.regs.zero = FALSE,
              !.regs.carry = (s.sp % 256) + imm8 > 255,
              !.regs.subtract = FALSE,
              !.regs.half_carry = (s.sp % 16) + (imm8 % 16) > 15]

\* add_hl_sp_imm8 with the carry taken from the signed sum
add_hl_sp_imm8_signed(s, imm8) ==
    LET hl == U16(s.sp + Signed8(imm8))
    IN  [s EXCEPT !.regs.zero = FALSE,
                  !.regs.subtract = FALSE,
                  !.regs.carry = (s.sp % 256) + Signed8(imm8) > 255,
                  !.regs.half_carry = (s.sp % 16) + (imm8 % 16) > 15,
                  !.regs.h = Hi(hl),
                  !.regs.l = Lo(hl)]

\* add_hl_sp_imm8: imm8 is sign-extended to u16 and added with wrapping_add
add_hl_sp_imm8(s, imm8) ==
    LET ext == U16(Signed8(imm8))
        hl == U16(s.sp + ext)
    IN  [s EXCEPT !.regs.zero = FALSE,
                  !.regs.subtract = FALSE,
                  !.regs.carry = (s.sp % 256) + (ext % 256) > 255,
                  !.regs.half_carry = (s.sp % 16) + (ext % 16) > 15,
                  !.regs.h = Hi(hl),
                  !.regs.l = Lo(hl)]

\* the load opcodes by their bit patterns: `ld r8, r8` (block 1) and
\* `ld r8, imm8` with register operands, `ld r16, imm16`, `ld [r16mem], a` and
\* `ld a, [r16mem]`
IsLdR8R8(op) ==
    op >= 64 /\ op < 128 /\ (op \div 8) % 8 \in R8Regs /\ op % 8 \in R8Regs
IsLdR8Imm8(op) == op < 64 /\ op % 8 = 6 /\ op \div 8 \in R8Regs
IsLdR16Imm16(op) == op < 64 /\ op % 16 = 1
IsLdMemA(op) == op < 64 /\ op % 16 = 2
IsLdAMem(op) == op < 64 /\ op % 16 = 10

\* ld_r16_imm16 on the pair Registers::get_r16 selects, or `self.sp = imm16`
ld_r16_imm16(s, r16, imm16) ==
    CASE r16 = 0 -> [s EXCEPT !.regs.b = Hi(imm16), !.regs.c = Lo(imm16)]
      [] r16 = 1 -> [s EXCEPT !.regs.d = Hi(imm16), !.regs.e = Lo(imm16)]
      [] r16 = 2 -> [s EXCEPT !.regs.h = Hi(imm16), !.regs.l = Lo(imm16)]
      [] r16 = 3 -> [s EXCEPT !.sp = imm16]

\* the address in the pair Registers::get_r16mem selects: BC, DE, HL, HL
r16mem(s, k) ==
    CASE k = 0 -> s.regs.b * 256 + s.regs.c
      [] k = 1 -> s.regs.d * 256 + s.regs.e
      [] k \in {2, 3} -> s.regs.h * 256 + s.regs.l

\* inc_r16 and dec_r16 on HL after a load through HL+ (2) or HL- (3)
after_instruction(s, k) ==
    LET hl == s.regs.h * 256 + s.regs.l
        to == CASE k = 2 -> U16(hl + 1)
                [] k = 3 -> U16(hl - 1)
                [] OTHER -> hl
    IN  [s EXCEPT !.regs.h = Hi(to), !.regs.l = Lo(to)]

\* the arm `ld [imm16], a` returning 2
ld_imm16_a_short(s, imm16) ==
    [s EXCEPT !.mmu = write_byte(s.mmu, imm16, s.a), !.pc = s.pc + 3, !.dt = 2]

\* the arm `ld [imm16], a` of Cpu::step
ld_imm16_a(s, imm16) ==
    [s EXCEPT !.mmu = write_byte(s.mmu, imm16, s.a), !.pc = s.pc + 3, !.dt = 4]

\* Flags::get_condition: nz, z, nc, c
get_condition(f, flag) ==
    CASE flag = 0 -> ~f.zero
      [] flag = 1 -> f.zero
      [] flag = 2 -> ~f.carry
      [] flag = 3 -> f.carry

\* `x as i16` of a u16
AsI16(x) == IF x >= 32768 THEN x - 65536 ELSE x

\* `self.pc = (self.pc as i16 + imm8 as i16) as u16; self.pc += 2;`
jr(p, imm8) == U16(U16(AsI16(p) + Signed8(imm8)) + 2)

\* where that overflows: the i16 sum, or the `+= 2` after it
jr_overflows(p, imm8) ==
    LET sum == AsI16(p) + Signed8(imm8)
    IN  sum > 32767 \/ sum < -32768 \/ U16(sum) + 2 > 65535

\* `jr cond, imm8` (0x20, 0x28, 0x30, 0x38) and `jp cond, imm16` (0xC2, 0xCA,
\* 0xD2, 0xDA); the condition is bits 3-4 of the opcode
IsJrCond(op) == op >= 32 /\ op < 64 /\ op % 8 = 0
IsJpCond(op) == op >= 192 /\ op < 224 /\ op % 8 = 2
CondOf(op) == (op \div 8) % 4

\* the 0xCB arm of Cpu::step for the second opcode byte cb: blocks 0b10 (res)
\* and 0b11 (set)
step_cb(s, cb) ==
    LET bit_index == (cb \div 8) % 8
        k == cb % 8
        r == IF cb \div 64 = 2 THEN res_b3_r8(s, bit_index, k)
             ELSE set_b3_r8(s, bit_index, k)
    IN  [r EXCEPT !.pc = s.pc + 2, !.dt = 2]

\* Cpu::step for one fetched instruction i = [op, imm]: the CPU and MMU after
\* the instruction and the M-cycles returned.  Opcode 0x76 falls in block 1
\* (`ld r8, r8` with both operands (HL)): it stores the byte at HL onto itself.
step(i) ==
    LET same == [pc |-> pc, sp |-> sp, ime |-> ime, a |-> a, regs |-> regs,
                 mmu |-> mmu, dt |-> 0]
    IN  CASE i.op = OpNOP   -> [same EXCEPT !.pc = pc + 1, !.dt = 1]
          [] i.op < 64 /\ i.op % 8 = 4 ->
                [inc_r8(same, i.op \div 8) EXCEPT !.pc = pc + 1, !.dt = 1]
          [] i.op < 64 /\ i.op % 8 = 5 ->
                [dec_r8(same, i.op \div 8) EXCEPT !.pc = pc + 1, !.dt = 1]
          [] i.op = OpDAA   -> [daa(same) EXCEPT !.pc = pc + 1, !.dt = 1]
          [] i.op \div 8 = OpADD \div 8 ->
                [add_a_r8(same, i.op % 8) EXCEPT !.pc = pc + 1, !.dt = 1]
          [] i.op \div 8 = OpSUB \div 8 ->
                [sub_a_r8(same, i.op % 8) EXCEPT !.pc = pc + 1, !.dt = 1]
          [] i.op = OpCB    -> step_cb(same, i.imm)
          [] i.op = OpCALL  -> [same EXCEPT
                                  !.mmu = write_word(mmu, U16(sp - 2),
                                                     U16(return_address(pc))),
                                  !.sp = U16(sp - 2),
                                  !.pc = i.imm,
                                  !.dt = 6]
          [] i.op = OpRET   -> [same EXCEPT !.pc = read_word(mmu, sp),
                                            !.sp = U16(sp + 2),
                                            !.dt = 4]
          [] i.op = OpRST   -> [same EXCEPT
                                  !.mmu = write_word(mmu, U16(sp - 2),
                                                     U16(pc + 1)),
                                  !.sp = U16(sp - 2),
                                  !.pc = ((i.op \div 8) % 8) * 8,
                                  !.dt = 4]
          [] i.op = OpPOPAF -> [same EXCEPT
                                  !.a = read_byte(mmu, U16(sp + 1)),
                                  !.regs = set_from_u8(regs, read_byte(mmu, sp)),
                                  !.sp = U16(sp + 2),
                                  !.pc = U16(pc + 1),
                                  !.dt = 4]
          [] i.op = OpPUSHAF -> [same EXCEPT
                                  !.mmu = write_word(mmu, U16(sp - 2),
                                                     a * 256 + to_u8(regs)),
                                  !.sp = U16(sp - 2),
                                  !.pc = U16(pc + 1),
                                  !.dt = 3]
          [] i.op = OpJR    -> [same EXCEPT !.pc = jr(pc, i.imm), !.dt = 3]
          [] IsJrCond(i.op) ->
                IF get_condition(regs, CondOf(i.op))
                THEN [same EXCEPT !.pc = jr(pc, i.imm), !.dt = 3]
                ELSE [same EXCEPT !.pc = U16(pc + 2), !.dt = 2]
          [] IsJpCond(i.op) ->
                IF get_condition(regs, CondOf(i.op))
                THEN [same EXCEPT !.pc = i.imm, !.dt = 4]
                ELSE [same EXCEPT !.pc = U16(pc + 3), !.dt = 3]
          [] IsLdR16Imm16(i.op) ->
                [ld_r16_imm16(same, i.op \div 16, i.imm) EXCEPT
                   !.pc = pc + 3, !.dt = 3]
          [] IsLdR8Imm8(i.op) ->
                [set_r8(same, i.op \div 8, i.imm) EXCEPT !.pc = pc + 2, !.dt = 2]
          [] IsLdR8R8(i.op) ->
                [set_r8(same, (i.op \div 8) % 8, get_r8(same, i.op % 8)) EXCEPT
                   !.pc = pc + 1, !.dt = 1]
          [] IsLdMemA(i.op) ->
                [after_instruction(
                    [same EXCEPT
                       !.mmu = write_byte(mmu, r16mem(same, i.op \div 16), a)],
                    i.op \div 16)
                 EXCEPT !.pc = pc + 1, !.dt = 2]
          [] IsLdAMem(i.op) ->
                [after_instruction(
                    [same EXCEPT
                       !.a = read_byte(mmu, r16mem(same, i.op \div 16))],
                    i.op \div 16)
                 EXCEPT !.pc = pc + 1, !.dt = 2]
          [] i.op = OpLDmSP -> [same EXCEPT !.mmu = write_word(mmu, i.imm, sp),
                                            !.pc = pc + 3,
                                            !.dt = 5]
          [] i.op = OpLDCA  -> [same EXCEPT
                                  !.mmu = write_byte(mmu, 65280 + regs.c, a),
                                  !.pc = pc + 1,
                                  !.dt = 2]
          [] i.op = OpLDmA  -> ld_imm16_a(same, i.imm)
          [] i.op = OpLDAm  -> [same EXCEPT !.a = read_byte(mmu, i.imm),
                                            !.pc = pc + 3,
                                            !.dt = 4]
          [] i.op = OpHALT  -> [same EXCEPT !.pc = pc + 1, !.dt = 1]
          [] i.op = OpJP    -> [same EXCEPT !.pc = i.imm, !.dt = 4]
          [] i.op = OpRETI  -> [same EXCEPT !.pc = read_word(mmu, sp),
                                            !.sp = U16(sp + 2),
                                            !.ime = TRUE,
                                            !.dt = 4]
          [] i.op = OpLDHwr -> [same EXCEPT
                                  !.mmu = write_byte(mmu, 65280 + i.imm, a),
                                  !.pc = pc + 2,
                                  !.dt = 3]
          [] i.op = OpLDHrd -> [same EXCEPT
                                  !.a = IF i.imm = 0 THEN 239
                                        ELSE read_byte(mmu, 65280 + i.imm),
                                  !.pc = pc + 2,
                                  !.dt = 3]
          [] i.op = OpLDAC  -> [same EXCEPT
                                  !.a = read_byte(mmu, 65280 + regs.c),
                                  !.pc = pc + 1,
                                  !.dt = 2]
          [] i.op = OpADDSP -> [add_sp_imm8(same, i.imm) EXCEPT
                                  !.pc = pc + 2, !.dt = 4]
          [] i.op = OpLDHLSP -> [add_hl_sp_imm8(same, i.imm) EXCEPT
                                  !.pc = pc + 2, !.dt = 3]
          [] i.op = OpDI    -> [same EXCEPT !.ime = FALSE, !.pc = pc + 1, !.dt = 1]
          [] i.op = OpEI    -> [same EXCEPT !.ime = TRUE, !.pc = pc + 1, !.dt = 1]

\* whether Cpu::step for a stack instruction or a jump i evaluates an integer
\* expression that overflows: `self.sp - 2`, `self.sp += 2`, `self.sp + 1`,
\* the `address + 1` of read_word and write_word, `self.pc + 3`,
\* `self.pc + 1`, the sum of jr.  A build with overflow checks panics there.
step_overflows(i) ==
    CASE i.op = OpCALL   -> sp < 2 \/ pc + 3 > 65535
      [] i.op = OpRST    -> sp < 2 \/ pc + 1 > 65535
      [] i.op = OpPUSHAF -> sp < 2 \/ pc + 1 > 65535
      [] i.op = OpPOPAF  -> sp + 2 > 65535 \/ pc + 1 > 65535
      [] i.op \in {OpRET, OpRETI} -> sp + 2 > 65535
      [] i.op = OpJR     -> pc + 1 > 65535 \/ jr_overflows(pc, i.imm)
      [] IsJrCond(i.op)  ->
            IF get_condition(regs, CondOf(i.op))
            THEN pc + 1 > 65535 \/ jr_overflows(pc, i.imm)
            ELSE pc + 2 > 65535
      [] i.op = OpJP     -> pc + 2 > 65535
      [] IsJpCond(i.op)  ->
            IF get_condition(regs, CondOf(i.op))
            THEN pc + 2 > 65535
            ELSE pc + 3 > 65535
      [] OTHER -> FALSE

\* the same for the interrupt arms of game_loop
service_overflows == sp < 2

\* service without its `self.ime = false`
service_keeps_ime(k) ==
    LET m1 == write_byte(mmu, 65295, ClearBit(read_byte(mmu, 65295), k))
    IN  [ime |-> ime,
         mmu |-> write_word(m1, U16(sp - 2), pc),
         sp  |-> U16(sp - 2),
         pc  |-> 64 + 8 * k]

\* the body of one `if ... & 0b0000_000x != 0 { .. }` arm of game_loop:
\* clear IME, clear the IF bit, push PC, jump to the vector
service(k) ==
    LET m1 == write_byte(mmu, 65295, ClearBit(read_byte(mmu, 65295), k))
    IN  [ime |-> FALSE,
         mmu |-> write_word(m1, U16(sp - 2), pc),
         sp  |-> U16(sp - 2),
         pc  |-> 64 + 8 * k]

\* the interrupt arms game_loop has: V-Blank (bit 0) and LCD STAT (bit 1)
ServicedBits == {0, 1}

\* `self.mmu.read_byte(0xFFFF) & self.mmu.read_byte(0xFF0F) & (1 << k) != 0`
pending(m, k) == Bit(And8(read_byte(m, 65535), read_byte(m, 65295)), k) # 0

\* the `if self.ime { if .. else if .. else {} }` of game_loop
interrupt_check ==
    LET none == [ime |-> ime, mmu |-> mmu, sp |-> sp, pc |-> pc]
        hits == {k \in ServicedBits : pending(mmu, k)}
    IN  IF ime /\ hits # {}
        THEN service(CHOOSE k \in hits : \A j \in hits : k <= j)
        ELSE none

-----------------------------------------------------------------------------
(* Inputs: the instructions a fetch may deliver *)

ImmBytes == {0, 1, 6, 16}
WrRegs == {IoDIV, IoIF, 255}
JpTargets == {256}

Menu ==
    [op : {OpNOP, OpHALT, OpDI, OpEI, OpRETI}, imm : {0}]
    \cup [op : {OpLDSP}, imm : SpImms]
    \cup [op : {OpLDA}, imm : ImmBytes]
    \cup [op : {OpLDHwr}, imm : WrRegs]
    \cup [op : {OpJP}, imm : JpTargets]

FrameMenu ==
    [op : {OpJP}, imm : JpTargets] \cup [op : {OpJR}, imm : {254}]

\* The programs considered keep the stack inside the modelled window: they
\* load SP before enabling interrupts and return only what was pushed.
CanPush == sp > StackFloor /\ sp <= StackTop
CanPop == sp >= StackFloor /\ sp < StackTop

Allowed(i) ==
    CASE i.op = OpEI   -> CanPush
      [] i.op = OpRETI -> CanPop
      [] i.op = OpJR   -> pc + Signed8(i.imm) >= 0
      [] OTHER         -> TRUE

-----------------------------------------------------------------------------
(* The frame driver, Cpu::game_loop *)

\* no Mmu method has been called yet; the fields of a call record: the method,
\* its address and value arguments (value is 1 for `pressed`), the button of a
\* joypad_<button> call, and whether the call panicked
NoCall == [fn |-> "new", address |-> 0, value |-> 0, button |-> "", panic |-> FALSE]

-----------------------------------------------------------------------------
(* The Mbc1 of src/src/mapper.rs.  It keeps its own copy of the mapper       *)
(* registers and publishes the banks in effect into the fields bank0, bank1 *)
(* and eram of the Mmu it is handed; mmu.rs has no such fields, so the model *)
(* keeps the published values in the mapper record.                          *)

\* `Option<usize>`
None == [some |-> FALSE, bank |-> 0]
Some(n) == [some |-> TRUE, bank |-> n]

\* Mbc1::new(rom_size, ram_size, mmu)
Mbc1New(rom_size, ram_size) ==
    [ rom_size   |-> rom_size,
      ram_size   |-> ram_size,
      ram_enable |-> FALSE,
      rom_bank   |-> 1,
      rom_mode   |-> 0,
      bank0      |-> 0,
      bank1      |-> 1,
      eram       |-> None ]

\* main.rs declares the module and constructs no Mbc1
NoMapper == Mbc1New(0, 0)

\* the `match self.rom_bank` of the BANK1 and BANK2 arms, arms in order
mbc1_bank1(mp) ==
    LET n == mp.rom_bank
    IN  IF n <= 1 THEN 1
        ELSE IF And8(n, 31) = 0 THEN rem(n, mp.rom_size) + 1
        ELSE IF n < 96 /\ n < mp.rom_size THEN n
        ELSE rem(n, mp.rom_size)

\* `let mut rambank = self.rom_bank as usize >> 5; if rambank >= ram_size
\* { rambank = 0 }`
mbc1_rambank(mp) ==
    LET rambank == mp.rom_bank \div 32
    IN  IF rambank >= mp.ram_size THEN 0 ELSE rambank

\* the `match self.rom_mode` of the BANK2 and MODE arms with `bank0` as the
\* arm computed it, then `if self.rom_size < 64 { mmu.bank0 = 0 }`
mbc1_publish(mp, bank0) ==
    [mp EXCEPT !.bank0 = IF mp.rom_size < 64 \/ mp.rom_mode = 0 THEN 0 ELSE bank0,
               !.eram  = IF ~mp.ram_enable THEN None
                         ELSE IF mp.rom_mode = 0 THEN Some(0)
                         ELSE Some(mbc1_rambank(mp))]

\* Mbc1::write_register(address, value, mmu) for an address of 0000-7FFF
write_register(mp, address, value) ==
    LET armed ==
          IF address <= 8191
          THEN LET en == value % 16 = 10 /\ mp.ram_size > 0
               IN  [mp EXCEPT !.ram_enable = en,
                              !.eram = IF en THEN Some(mp.rom_bank \div 32)
                                       ELSE None]
          ELSE IF address <= 16383
          THEN LET m1 == [mp EXCEPT !.rom_bank = Or8(And8(@, 224), And8(value, 31))]
               IN  [m1 EXCEPT !.bank1 = mbc1_bank1(m1)]
          ELSE IF address <= 24575
          THEN LET m1 == [mp EXCEPT !.rom_bank =
                                       Or8(And8(@, 31), And8(value, 3) * 32)]
                   m2 == mbc1_publish(m1, rem(And8(m1.rom_bank, 96), m1.rom_size))
               IN  [m2 EXCEPT !.bank1 = mbc1_bank1(m1)]
          ELSE LET m1 == [mp EXCEPT !.rom_mode = value % 2]
               IN  mbc1_publish(m1, And8(m1.rom_bank, 96))
    IN  IF armed.ram_size = 0 THEN [armed EXCEPT !.eram = None] ELSE armed

\* the external RAM bank Mmu::read_byte and Mmu::write_byte select at
\* A000-BFFF, or None where they leave external RAM alone
eram_selected(m) ==
    IF m.ram_enable /\ m.ram_size > 0 THEN Some(ram_bank(m)) ELSE None

\* nothing of the host's frame buffer has been looked at
NoFrame == Zeroes

\* the record of a run that starts with the CPU at pc p, sp s, a x, registers r
Started(p, s, x, r) ==
    [origin |-> [pc |-> p, sp |-> s, a |-> x, regs |-> r], trace |-> <<>>]

\* Cpu::new with Mmu::new and Registers::new, before the first game_loop call
Init ==
    /\ loc = "idle"
    /\ line = 0
    /\ ticks = 0
    /\ dt = 0
    /\ last = [op |-> OpNOP, imm |-> 0, ime |-> FALSE]
    /\ pc = 0
    /\ sp = 0
    /\ ime = FALSE
    /\ state = "Bootstrap"
    /\ a = 100
    /\ mmu = MmuNew
    /\ ret = FALSE
    /\ steps = 0
    /\ call = NoCall
    /\ regs = RegistersNew
    /\ frame = NoFrame
    /\ mapper = NoMapper
    /\ hist = Started(0, 0, 100, RegistersNew)

\* the host's 16 ms tick calls game_loop: `let mut ticks = 0; for line in 0..154`
GameLoopCall ==
    /\ loc = "idle"
    /\ loc' = "fetch"
    /\ line' = 0
    /\ ticks' = 0
    /\ UNCHANGED <<regs, rest, dt, last, pc, sp, ime, state, a, mmu, ret, steps, call>>

\* a keyboard event between two frames: Mmu::joypad_<b>(pressed)
JoypadEvent(b, pressed) ==
    /\ loc = "idle"
    /\ mmu' = joypad_set(mmu, b, pressed)
    /\ call' = [NoCall EXCEPT !.fn = "joypad", !.button = b,
                              !.value = IF pressed THEN 1 ELSE 0]
    /\ UNCHANGED <<regs, rest, loc, line, ticks, dt, last, pc, sp, ime, state, a, ret, steps>>

\* `if self.pc == 0x100 { .. }; ticks += self.step() as u32;`
Step(i) ==
    /\ loc = "fetch"
    /\ Allowed(i)
    /\ LET r == step(i)
       IN  /\ state' = IF pc = 256 THEN "Running" ELSE state
           /\ pc' = r.pc
           /\ sp' = r.sp
           /\ ime' = r.ime
           /\ a' = r.a
           /\ regs' = r.regs
           /\ mmu' = r.mmu
           /\ dt' = r.dt
           /\ ticks' = ticks + r.dt
    /\ last' = [op |-> i.op, imm |-> i.imm, ime |-> ime]
    /\ loc' = "irq"
    /\ UNCHANGED <<rest, line, ret, call>>

\* the interrupt arms after the step, then the test of `while ticks < 456`
IrqCheck ==
    /\ loc = "irq"
    /\ LET r == interrupt_check
       IN  /\ ime' = r.ime
           /\ mmu' = r.mmu
           /\ sp' = r.sp
           /\ pc' = r.pc
    /\ loc' = IF ticks < TicksPerLine THEN "fetch" ELSE "eol"
    /\ UNCHANGED <<regs, rest, line, ticks, dt, last, state, a, ret, steps, call>>

\* what game_loop does to the MMU after the while loop of `line`
\* (draw_scanline only reads the MMU)
line_end(m, l) ==
    LET m1 == IF l + 1 = read_byte(m, 65349) /\ Bit(read_byte(m, 65535), 1) # 0
              THEN write_byte(m, 65295, Or8(read_byte(m, 65295), 2))
              ELSE m
        m2 == IF l = VBlankLine /\ Bit(read_byte(m1, 65535), 0) # 0
              THEN write_byte(m1, 65295, Or8(read_byte(m1, 65295), 1))
              ELSE m1
    IN  write_byte(m2, 65348, l)

\* `ticks = 0; ..; self.mmu.write_byte(0xFF44, line);` and the next iteration
\* of the for loop, or the return after line 153
LineEnd ==
    /\ loc = "eol"
    /\ mmu' = line_end(mmu, line)
    /\ ticks' = 0
    /\ IF line + 1 < LinesPerFrame
       THEN loc' = "fetch" /\ line' = line + 1
       ELSE loc' = "idle" /\ line' = line
    /\ UNCHANGED <<regs, rest, dt, last, pc, sp, ime, state, a, ret, steps, call>>

-----------------------------------------------------------------------------
(* Spec: the first MaxSteps instructions after power-on, any program *)

SpecButtons == {"a"}

StepBounded ==
    /\ steps < MaxSteps
    /\ \E i \in Menu : Step(i)
    /\ steps' = steps + 1

JoypadBounded ==
    /\ steps = 0
    /\ \E b \in SpecButtons : \E pressed \in BOOLEAN : JoypadEvent(b, pressed)

Next == GameLoopCall \/ JoypadBounded \/ StepBounded \/ IrqCheck

Spec == Init /\ [][Next]_vars

-----------------------------------------------------------------------------
(* SpecFrame: whole frames of a program that spins in a jump loop *)

StepFrame ==
    /\ \E i \in FrameMenu : Step(i)
    /\ UNCHANGED steps

NextFrame == GameLoopCall \/ StepFrame \/ IrqCheck \/ LineEnd

SpecFrame == Init /\ [][NextFrame]_vars

-----------------------------------------------------------------------------
(* SpecTimer: Mmu methods called on a fresh Mmu; loc names the method that  *)
(* ran last                                                                *)

TimerRegs == {IoDIV, IoTIMA, IoTMA, IoTAC}
TimerBytes == {0, 5, 18, 255}
StepCycles == 1 .. 6

\* Mmu::write_byte(0xFF00 + r, v)
WriteByteCall ==
    /\ steps < MaxCalls
    /\ \E r \in TimerRegs : \E v \in TimerBytes :
          /\ mmu' = write_byte(mmu, 65280 + r, v)
          /\ last' = [op |-> OpLDHwr, imm |-> r, ime |-> ime]
    /\ loc' = "write_byte"
    /\ steps' = steps + 1
    /\ UNCHANGED <<regs, rest, line, ticks, dt, pc, sp, ime, state, a, ret, call>>

\* Mmu::increment_timer(cycles)
IncrementTimerCall ==
    /\ steps < MaxCalls
    /\ \E cycles \in StepCycles :
          LET r == increment_timer(mmu, cycles)
          IN  /\ mmu' = r.mmu
              /\ ret' = r.ret
              /\ dt' = cycles
    /\ loc' = "increment_timer"
    /\ steps' = steps + 1
    /\ UNCHANGED <<regs, rest, line, ticks, last, pc, sp, ime, state, a, call>>

NextTimer == WriteByteCall \/ IncrementTimerCall

SpecTimer == Init /\ [][NextTimer]_vars

-----------------------------------------------------------------------------
(* Harnesses that call Mmu methods on a loaded cartridge.  They do not count *)
(* calls: their inputs are few enough for the state space to be finite.      *)

\* the cartridge files considered: 4, 8, 128, 256 and 512 ROM banks
Carts ==
    { [rom_code |-> 1, ram_code |-> 0],
      [rom_code |-> 2, ram_code |-> 2],
      [rom_code |-> 6, ram_code |-> 3],
      [rom_code |-> 7, ram_code |-> 3],
      [rom_code |-> 8, ram_code |-> 0] }

\* Cpu::new, then Mmu::load_game of one of the files in carts.  checks is
\* whether the build has overflow checks: with them the shift of load_game
\* panics on a ROM-size code of 8 or more.
InitCart(carts) ==
    /\ loc = "idle"
    /\ line = 0
    /\ ticks = 0
    /\ dt = 0
    /\ last = [op |-> OpNOP, imm |-> 0, ime |-> FALSE]
    /\ pc = 0
    /\ sp = 0
    /\ ime = FALSE
    /\ state = "Bootstrap"
    /\ a = 100
    /\ ret = FALSE
    /\ steps = 0
    /\ regs = RegistersNew
    /\ frame = NoFrame
    /\ mapper = NoMapper
    /\ hist = Started(0, 0, 100, RegistersNew)
    /\ \E cart \in carts : \E checks \in BOOLEAN :
          IF shl_overflows(cart.rom_code) /\ checks
          THEN /\ mmu = MmuNew
               /\ call = [NoCall EXCEPT !.fn = "load_game", !.panic = TRUE]
          ELSE /\ mmu = load_game(MmuNew, cart)
               /\ call = [NoCall EXCEPT !.fn = "load_game"]

\* Mmu::write_byte(address, value) called on its own; after a panic the
\* program is gone
MmuWrite(address, value) ==
    /\ ~call.panic
    /\ IF write_panics(mmu, address, value)
       THEN /\ call' = [NoCall EXCEPT !.fn = "write_byte", !.address = address,
                                      !.value = value, !.panic = TRUE]
            /\ UNCHANGED mmu
       ELSE /\ call' = [NoCall EXCEPT !.fn = "write_byte", !.address = address,
                                      !.value = value]
            /\ mmu' = write_byte(mmu, address, value)
    /\ UNCHANGED <<regs, rest, loc, line, ticks, dt, last, pc, sp, ime, state, a, ret, steps>>

\* SpecMem: OAM DMA from every kind of source page, FF50, the echo and the
\* prohibited range, on a cartridge of 4 ROM banks and one RAM bank.  Each
\* input is <<address, value>>.
MemCarts == {[rom_code |-> 1, ram_code |-> 2]}
DmaPages == {0, 128, 160, 192, 224, 254, 255}
MemWrites ==
    {<<65350, v>> : v \in DmaPages}
    \cup { <<49152, 17>>, <<65024, 7>>, <<65360, 1>>, <<65360, 0>>,
           <<0, 10>>, <<40960, 85>>,
           <<57344, 5>>, <<65023, 5>>, <<65184, 5>>, <<65279, 5>> }

MemWriteCall == \E w \in MemWrites : MmuWrite(w[1], w[2])

NextMem == MemWriteCall

SpecMem == InitCart(MemCarts) /\ [][NextMem]_vars

\* SpecMapper: the MBC1 registers RAMG, BANK1, BANK2 and MODE, external RAM
\* and FF50, on every cartridge of Carts.
MapperWrites ==
    { <<0, 0>>, <<0, 10>>, <<8191, 26>>,
      <<8192, 0>>, <<8192, 1>>, <<16383, 5>>,
      <<16384, 0>>, <<16384, 1>>, <<16384, 2>>, <<24575, 3>>,
      <<24576, 0>>, <<32767, 1>>,
      <<40960, 85>>,
      <<65360, 1>> }

MapperWriteCall == \E w \in MapperWrites : MmuWrite(w[1], w[2])

NextMapper == MapperWriteCall

SpecMapper == InitCart(Carts) /\ [][NextMapper]_vars

\* SpecBanks: every write of a mapper register goes to the Mmu and to an Mbc1
\* built for the same cartridge.  The cartridges have 4, 64 and 128 ROM banks
\* (counts that fit the u8 of Mbc1::new and of Mmu.rom_size) and 0, 1 and 4
\* RAM banks.
BankCarts ==
    [rom_code : {1, 5, 6}, ram_code : {0, 2, 3}]

BankWrites ==
    { <<0, 0>>, <<0, 10>>,
      <<8192, 0>>, <<8192, 1>>, <<16383, 5>>,
      <<16384, 0>>, <<16384, 1>>, <<24575, 3>>,
      <<24576, 0>>, <<32767, 1>> }

InitBanks ==
    /\ loc = "idle"
    /\ line = 0
    /\ ticks = 0
    /\ dt = 0
    /\ last = [op |-> OpNOP, imm |-> 0, ime |-> FALSE]
    /\ pc = 0
    /\ sp = 0
    /\ ime = FALSE
    /\ state = "Bootstrap"
    /\ a = 100
    /\ ret = FALSE
    /\ steps = 0
    /\ regs = RegistersNew
    /\ frame = NoFrame
    /\ hist = Started(0, 0, 100, RegistersNew)
    /\ call = [NoCall EXCEPT !.fn = "load_game"]
    /\ \E cart \in BankCarts :
          /\ mmu = load_game(MmuNew, cart)
          /\ mapper = Mbc1New(rom_size_of(cart.rom_code), ram_size_of(cart.ram_code))

\* Mmu::write_byte(address, value) and Mbc1::write_register(address, value)
BankWrite(address, value) ==
    /\ call' = [NoCall EXCEPT !.fn = "write_register", !.address = address,
                              !.value = value]
    /\ mmu' = write_byte(mmu, address, value)
    /\ mapper' = write_register(mapper, address, value)
    /\ UNCHANGED <<regs, frame, hist, loc, line, ticks, dt, last, pc, sp, ime,
                   state, a, ret, steps>>

BankWriteCall == \E w \in BankWrites : BankWrite(w[1], w[2])

NextBanks == BankWriteCall

SpecBanks == InitBanks /\ [][NextBanks]_vars

\* SpecJoypad: keyboard events for every button, guest writes of the joypad
\* register (every selector, two patterns of the other bits) and a guest
\* write that clears IF, on a fresh Mmu.
P1Bytes == {0, 16, 32, 48, 239}
JoypadWrites == {<<65280, v>> : v \in P1Bytes} \cup {<<65295, 0>>}

JoypadCall == \E b \in Buttons : \E pressed \in BOOLEAN : JoypadEvent(b, pressed)

JoypadWriteCall == \E w \in JoypadWrites : MmuWrite(w[1], w[2])

NextJoypad == JoypadCall \/ JoypadWriteCall

SpecJoypad == Init /\ [][NextJoypad]_vars

-----------------------------------------------------------------------------
(* Harnesses that call Cpu::step on its own: a CPU is set up with chosen     *)
(* registers on a loaded cartridge and runs one of a few short programs.     *)
(* hist keeps the registers the run started from and the instructions run.   *)

\* Registers::new with the flags set to z, n, h, c
WithFlags(z, n, h, c) ==
    [RegistersNew EXCEPT !.zero = z, !.subtract = n, !.half_carry = h,
                         !.carry = c]

AllFlags == {WithFlags(z, n, h, c) : z, n, h, c \in BOOLEAN}

\* Cpu::new, Mmu::load_game, then pc, sp and the registers set to one of starts
InitCpu(starts) ==
    /\ loc = "idle"
    /\ line = 0
    /\ ticks = 0
    /\ dt = 0
    /\ last = [op |-> OpNOP, imm |-> 0, ime |-> FALSE]
    /\ ime = FALSE
    /\ state = "Bootstrap"
    /\ ret = FALSE
    /\ steps = 0
    /\ frame = NoFrame
    /\ mapper = NoMapper
    /\ \E cart \in MemCarts :
          /\ mmu = load_game(MmuNew, cart)
          /\ call = [NoCall EXCEPT !.fn = "load_game"]
    /\ \E c \in starts :
          /\ pc = c.pc
          /\ sp = c.sp
          /\ a = c.a
          /\ regs = c.regs
          /\ hist = Started(c.pc, c.sp, c.a, c.regs)

\* the instructions that push (`self.sp - 2`) and those that pop
\* (`self.sp += 2`)
Pushes(i) == i.op \in {OpCALL, OpPUSHAF}
Pops(i) == i.op \in {OpRET, OpRETI, OpPOPAF}

\* the harness programs keep `sp - 2` and `sp += 2` inside u16
InRange(i) ==
    /\ Pushes(i) => sp >= 2
    /\ Pops(i) => sp + 2 <= 65535

\* `self.step()` called directly
Exec(i) ==
    /\ InRange(i)
    /\ LET r == step(i)
       IN  /\ pc' = r.pc
           /\ sp' = r.sp
           /\ ime' = r.ime
           /\ a' = r.a
           /\ regs' = r.regs
           /\ mmu' = r.mmu
           /\ dt' = r.dt
    /\ last' = [op |-> i.op, imm |-> i.imm, ime |-> ime]
    /\ hist' = [hist EXCEPT !.trace = Append(@, i)]
    /\ loc' = "step"
    /\ UNCHANGED <<frame, mapper, line, ticks, state, ret, steps, call>>

\* the next instruction of one of the programs, given what has run so far
Run(programs) ==
    \E p \in programs :
       LET n == Len(hist.trace)
       IN  /\ n < Len(p)
           /\ SubSeq(p, 1, n) = hist.trace
           /\ Exec(p[n + 1])

\* SpecStack: `push af; pop af` and `call nn; ret` with the stack in HRAM, in
\* work RAM, in ROM (0x4000) and in the echo area (0xE002)
PushAf == [op |-> OpPUSHAF, imm |-> 0]
PopAf == [op |-> OpPOPAF, imm |-> 0]
CallTargets == {512}
Call(nn) == [op |-> OpCALL, imm |-> nn]
Ret == [op |-> OpRET, imm |-> 0]

StackPrograms == {<<PushAf, PopAf>>} \cup {<<Call(nn), Ret>> : nn \in CallTargets}

StackPcs == {259, 336}
StackSps == {65534, 53248, 49154, 16384, 57346}
StackAs == {0, 100, 255}
StackStarts == [pc : StackPcs, sp : StackSps, a : StackAs, regs : AllFlags]

RunStack == Run(StackPrograms)

NextStack == RunStack

SpecStack == InitCpu(StackStarts) /\ [][NextStack]_vars

\* SpecLoads: one load or store of every form the model has, with HL in work
\* RAM, at the end of a page or not
LoadImm8s == {0, 171}
LoadImm16s == {49152, 65534}
LoadPrograms ==
    {<<[op |-> op, imm |-> 0]>> :
        op \in {n \in 64 .. 127 : IsLdR8R8(n)}
               \cup {n \in 0 .. 63 : IsLdMemA(n) \/ IsLdAMem(n)}
               \cup {OpHALT, OpLDCA, OpLDAC}}
    \cup {<<[op |-> op, imm |-> v]>> :
            op \in {n \in 0 .. 63 : IsLdR8Imm8(n)} \cup {OpLDHwr, OpLDHrd},
            v \in LoadImm8s}
    \cup {<<[op |-> op, imm |-> v]>> :
            op \in {n \in 0 .. 63 : IsLdR16Imm16(n)}
                   \cup {OpLDmSP, OpLDmA, OpLDAm},
            v \in LoadImm16s}
LoadRegs == {[RegistersNew EXCEPT !.h = 192, !.l = v] : v \in {16, 255}}
LoadStarts == [pc : {336}, sp : {65534}, a : {7, 100}, regs : LoadRegs]

RunLoads == Run(LoadPrograms)

NextLoads == RunLoads

SpecLoads == InitCpu(LoadStarts) /\ [][NextLoads]_vars

\* SpecLdh: up to MaxLoads loads of A from 0xFF00-0xFFFF (`ldh a, [imm8]` and
\* `ld a, (c)`, with C = 0 or C = 0x44) between keyboard events and guest
\* writes of the joypad register, on a fresh Mmu
MaxLoads == 2
LdhButtons == {"a", "down"}
LdhWrites == {<<65280, 16>>, <<65280, 32>>}
LdhRegs == {[RegistersNew EXCEPT !.c = c] : c \in {0, IoLY}}
LdhMenu == [op : {OpLDHrd}, imm : {0, IoLY}] \cup [op : {OpLDAC}, imm : {0}]

InitLdh ==
    /\ loc = "idle"
    /\ line = 0
    /\ ticks = 0
    /\ dt = 0
    /\ last = [op |-> OpNOP, imm |-> 0, ime |-> FALSE]
    /\ pc = 0
    /\ sp = 0
    /\ ime = FALSE
    /\ state = "Bootstrap"
    /\ a = 100
    /\ mmu = MmuNew
    /\ ret = FALSE
    /\ steps = 0
    /\ call = NoCall
    /\ regs \in LdhRegs
    /\ frame = NoFrame
    /\ mapper = NoMapper
    /\ hist = Started(0, 0, 100, regs)

\* `self.step()` on a load
LoadCall(i) ==
    /\ steps < MaxLoads
    /\ LET r == step(i)
       IN  /\ pc' = r.pc
           /\ sp' = r.sp
           /\ ime' = r.ime
           /\ a' = r.a
           /\ regs' = r.regs
           /\ mmu' = r.mmu
           /\ dt' = r.dt
    /\ last' = [op |-> i.op, imm |-> i.imm, ime |-> ime]
    /\ call' = [NoCall EXCEPT !.fn = "step"]
    /\ steps' = steps + 1
    /\ UNCHANGED <<rest, loc, line, ticks, state, ret>>

RunLdh == \E i \in LdhMenu : LoadCall(i)

LdhJoypadCall ==
    \E b \in LdhButtons : \E pressed \in BOOLEAN : JoypadEvent(b, pressed)

LdhWriteCall == \E w \in LdhWrites : MmuWrite(w[1], w[2])

NextLdh == RunLdh \/ LdhJoypadCall \/ LdhWriteCall

SpecLdh == InitLdh /\ [][NextLdh]_vars

\* SpecWrap: one push or pop, or one interrupt arm of game_loop, with SP and
\* PC at the ends of the address space; checks is whether the build has
\* overflow checks.  The program is gone after a panic.
Rst == [op |-> OpRST, imm |-> 0]
IrqOf(k) == [op |-> 256 + k, imm |-> 0]

WrapPrograms == {<<PushAf>>, <<PopAf>>, <<Rst>>, <<Ret>>}
                   \cup {<<Call(nn)>> : nn \in CallTargets}
WrapPcs == {259, 65534}
WrapSps == {0, 1, 2, 65534, 65535}
WrapStarts == [pc : WrapPcs, sp : WrapSps, a : StackAs,
               regs : {WithFlags(TRUE, FALSE, FALSE, TRUE)}]

StepCall(i, checks) ==
    /\ ~call.panic
    /\ Len(hist.trace) = 0
    /\ IF checks /\ step_overflows(i)
       THEN /\ call' = [NoCall EXCEPT !.fn = "step", !.panic = TRUE]
            /\ UNCHANGED <<pc, sp, ime, a, regs, mmu, dt>>
       ELSE /\ call' = [NoCall EXCEPT !.fn = "step"]
            /\ LET r == step(i)
               IN  /\ pc' = r.pc
                   /\ sp' = r.sp
                   /\ ime' = r.ime
                   /\ a' = r.a
                   /\ regs' = r.regs
                   /\ mmu' = r.mmu
                   /\ dt' = r.dt
    /\ last' = [op |-> i.op, imm |-> i.imm, ime |-> ime]
    /\ hist' = [hist EXCEPT !.trace = Append(@, i)]
    /\ loc' = "step"
    /\ UNCHANGED <<frame, mapper, line, ticks, state, ret, steps>>

RunWrap == \E p \in WrapPrograms : \E checks \in BOOLEAN : StepCall(p[1], checks)

\* one interrupt arm of game_loop taken on its own
ServiceCall(k, checks) ==
    /\ ~call.panic
    /\ Len(hist.trace) = 0
    /\ IF checks /\ service_overflows
       THEN /\ call' = [NoCall EXCEPT !.fn = "game_loop", !.panic = TRUE]
            /\ UNCHANGED <<pc, sp, ime, mmu>>
       ELSE /\ call' = [NoCall EXCEPT !.fn = "game_loop"]
            /\ LET r == service(k)
               IN  /\ ime' = r.ime
                   /\ mmu' = r.mmu
                   /\ sp' = r.sp
                   /\ pc' = r.pc
    /\ hist' = [hist EXCEPT !.trace = Append(@, IrqOf(k))]
    /\ loc' = "irq"
    /\ UNCHANGED <<regs, frame, mapper, line, ticks, dt, last, state, a, ret, steps>>

ServiceWrap ==
    \E k \in ServicedBits : \E checks \in BOOLEAN : ServiceCall(k, checks)

NextWrap == RunWrap \/ ServiceWrap

SpecWrap == InitCpu(WrapStarts) /\ [][NextWrap]_vars

\* SpecBranch: one jump, relative or absolute, conditional or not, from the
\* start, the middle and the ends of the address space and around 0x8000,
\* under every combination of flags
JrOffsets == {0, 5, 127, 128, 254}
Jr(e) == [op |-> OpJR, imm |-> e]
BranchPrograms ==
    {<<Jr(e)>> : e \in JrOffsets}
    \cup {<<[op |-> op, imm |-> e]>> : op \in {32, 40, 48, 56}, e \in JrOffsets}
    \cup {<<[op |-> op, imm |-> 512]>> : op \in {OpJP, 194, 202, 210, 218}}
BranchPcs == {0, 336, 32766, 32769, 65533}
BranchStarts == [pc : BranchPcs, sp : {65534}, a : {100}, regs : AllFlags]

RunBranch ==
    \E p \in BranchPrograms : \E checks \in BOOLEAN : StepCall(p[1], checks)

NextBranch == RunBranch

SpecBranch == InitCpu(BranchStarts) /\ [][NextBranch]_vars

\* SpecAlu: `add a, b; daa` and `add a, b; sub a, b` for every pair of bytes in
\* A and B, entered with all flags clear or all flags set
Byte == 0 .. 255
Daa == [op |-> OpDAA, imm |-> 0]
AluPrograms == {<<[op |-> AddOf(0), imm |-> 0], Daa>>,
                <<[op |-> AddOf(0), imm |-> 0], [op |-> SubOf(0), imm |-> 0]>>}

AluFlags == {WithFlags(f, f, f, f) : f \in BOOLEAN}
AluStarts ==
    {[pc |-> 259, sp |-> 65534, a |-> x, regs |-> [f EXCEPT !.b = y]] :
        x \in Byte, y \in Byte, f \in AluFlags}

RunAlu == Run(AluPrograms)

NextAlu == RunAlu

SpecAlu == InitCpu(AluStarts) /\ [][NextAlu]_vars

\* SpecR8: `inc r; dec r` and `set i, r; res i, r` for every register operand
\* r and bit i, entered with one byte v loaded in all seven registers and with
\* four flag combinations in which every flag is once set and once clear
Inc(k) == [op |-> IncOf(k), imm |-> 0]
Dec(k) == [op |-> DecOf(k), imm |-> 0]
Set(bit_index, k) == [op |-> OpCB, imm |-> SetOf(bit_index, k)]
Res(bit_index, k) == [op |-> OpCB, imm |-> ResOf(bit_index, k)]
BitIndexes == 0 .. 7

R8Programs ==
    {<<Inc(k), Dec(k)>> : k \in R8Regs}
    \cup {<<Set(i, k), Res(i, k)>> : i \in BitIndexes, k \in R8Regs}

R8Flags == {WithFlags(z, n, n, z) : z, n \in BOOLEAN}

R8Starts ==
    {[pc |-> 259, sp |-> 65534, a |-> v,
      regs |-> [f EXCEPT !.b = v, !.c = v, !.d = v, !.e = v, !.h = v, !.l = v]] :
        v \in Byte, f \in R8Flags}

RunR8 == Run(R8Programs)

NextR8 == RunR8

SpecR8 == InitCpu(R8Starts) /\ [][NextR8]_vars

\* SpecSp: `add sp, imm8` or `ld hl, sp + imm8` for every byte imm8, with SP
\* around the carries out of bit 3, bit 7 and bit 15, entered with all flags
\* clear or all flags set
AddSp(e) == [op |-> OpADDSP, imm |-> e]
LdHlSp(e) == [op |-> OpLDHLSP, imm |-> e]
SpPrograms == {<<AddSp(e)>> : e \in Byte} \cup {<<LdHlSp(e)>> : e \in Byte}
SpSps == {0, 1, 15, 16, 128, 255, 256, 4095, 53263, 65280, 65534, 65535}
SpStarts == [pc : {336}, sp : SpSps, a : {100}, regs : AluFlags]

RunSp == Run(SpPrograms)

NextSp == RunSp

SpecSp == InitCpu(SpStarts) /\ [][NextSp]_vars

-----------------------------------------------------------------------------
(* The PPU, src/src/ppu.rs.  A pixel is its four RGBA bytes; a row is the   *)
(* 160 pixels of one line of the frame buffer, columns numbered from 1; a   *)
(* layer (the `sprites` and `window` arrays of draw_scanline) maps the      *)
(* columns written, from 0, to their pixels, all others being Blank.        *)

ScreenWidth == 160
Columns == 0 .. ScreenWidth - 1

Blank == <<0, 0, 0, 0>>

\* the pixel of a layer at a column
layer_at(layer, col) == IF col \in DOMAIN layer THEN layer[col] ELSE Blank

\* Palette::from_u8(value)[i], with White, LightGray, DarkGray, Black as 0..3
Shade(value, i) == (value \div (4 ^ i)) % 4

\* the `match ... { Palette::White => &[232, 252, 204, 255], .. }` of ppu.rs
Rgba(shade) ==
    CASE shade = 0 -> <<232, 252, 204, 255>>
      [] shade = 1 -> <<172, 212, 144, 255>>
      [] shade = 2 -> <<84, 140, 112, 255>>
      [] shade = 3 -> <<20, 44, 56, 255>>

\* the LCDC getters of Mmu
get_bg_enable(m) == Bit(Load(m.io, IoLCDC), 0) = 1
get_obj_enable(m) == Bit(Load(m.io, IoLCDC), 1) = 1
get_obj_size(m) == Bit(Load(m.io, IoLCDC), 2) = 1
get_bg_map_mode(m) == Bit(Load(m.io, IoLCDC), 3) = 1
get_tile_mode(m) == Bit(Load(m.io, IoLCDC), 4) = 1
get_window_enable(m) == Bit(Load(m.io, IoLCDC), 5) = 1
get_window_map_mode(m) == Bit(Load(m.io, IoLCDC), 6) = 1

\* Mmu::get_bg_tile_data, get_bg_tile_map, get_window_tile_map: where in vram
\* the slice starts
bg_tile_data(m) == IF get_tile_mode(m) THEN 0 ELSE 2048
bg_tile_map(m) == IF get_bg_map_mode(m) THEN 7168 ELSE 6144
window_tile_map(m) == IF get_window_map_mode(m) THEN 7168 ELSE 6144

\* Mmu::get_bg_palette, get_obj_palette: the palette byte
bg_palette(m) == Load(m.io, IoBGP)
obj_palette(m, palette) == Load(m.io, IoOBP0 + (palette % 2))

\* `((hi >> (7 - x) & 1) << 1) | (lo >> (7 - x) & 1)`
color_of(lo, hi, x) == Bit(hi, 7 - x) * 2 + Bit(lo, 7 - x)

\* the color index at (x, y) of the background/window tile numbered tile:
\* `&tiles[tile * 16..]` or `&tiles[(tile as i8 as i16 * 16 + 0x800)..]`
tile_color(m, tile, y, x) ==
    LET start == bg_tile_data(m)
                 + (IF get_tile_mode(m) THEN tile * 16
                    ELSE Signed8(tile) * 16 + 2048)
    IN  color_of(Load(m.vram, start + y * 2), Load(m.vram, start + y * 2 + 1), x)

\* ObjectAttribute::from_bytes of OAM entry n
from_bytes(m, n) ==
    LET attrs == Load(m.oam, 4 * n + 3)
    IN  [y        |-> Load(m.oam, 4 * n) - 16,
         x        |-> Load(m.oam, 4 * n + 1) - 8,
         tile     |-> Load(m.oam, 4 * n + 2),
         priority |-> attrs \div 128 = 1,
         y_flip   |-> Bit(attrs, 6) = 1,
         x_flip   |-> Bit(attrs, 5) = 1,
         palette  |-> Bit(attrs, 4)]

\* the x-flip loop of draw_sprites: bit i of the byte goes to bit 7 - i
Reverse8(b) ==
    Bit(b, 0) * 128 + Bit(b, 1) * 64 + Bit(b, 2) * 32 + Bit(b, 3) * 16
    + Bit(b, 4) * 8 + Bit(b, 5) * 4 + Bit(b, 6) * 2 + Bit(b, 7)

\* `let offset = if mapper.get_obj_size() { 16 } else { 8 }`
obj_height(m) == IF get_obj_size(m) THEN 16 ELSE 8

\* the two tests at the head of the loop of draw_sprites: the sprite is on
\* this line
on_line(m, sprite, ln) ==
    /\ ~(sprite.y >= 144 \/ sprite.y = -16)
    /\ ~(ln >= sprite.y + obj_height(m) \/ ln < sprite.y)

\* the color index of a sprite at column x of its tile row on line ln
sprite_color(m, sprite, ln, x) ==
    LET offset == obj_height(m)
        tile_line == IF sprite.y_flip
                     THEN (offset - (ln - sprite.y) - 1) % offset
                     ELSE ln - sprite.y
        tile_start == IF offset = 8
                      THEN sprite.tile * 16 + tile_line * 2
                      ELSE (sprite.tile - (sprite.tile % 2)) * 16 + tile_line * 2
        b0 == Load(m.vram, tile_start)
        b1 == Load(m.vram, tile_start + 1)
    IN  IF sprite.x_flip THEN color_of(Reverse8(b0), Reverse8(b1), x)
        ELSE color_of(b0, b1, x)

\* the four bytes draw_sprites stores for a sprite pixel of color index color
sprite_pixel(m, sprite, color) ==
    LET rgba == Rgba(Shade(obj_palette(m, sprite.palette), color))
    IN  IF sprite.priority THEN [rgba EXCEPT ![4] = 128] ELSE rgba

\* the columns of the line a sprite writes: inside the screen, color not 0
painted(m, sprite, ln) ==
    {x \in 0 .. 7 : /\ sprite.x + x < ScreenWidth
                     /\ sprite.x + x >= 0
                     /\ sprite_color(m, sprite, ln, x) # 0}

\* draw_sprites before its loop: the layer, tile_count, x_values, whether
\* `break` was taken, the OAM entries whose pixel loop ran, and whether
\* `sprite.x as usize + x as usize` overflowed (a sprite with negative x)
NoSprites ==
    [output |-> Zeroes, tile_count |-> 0, x_values |-> {}, done |-> FALSE,
     drawn |-> {}, overflow |-> FALSE]

\* the loop body of draw_sprites for OAM entry n
sprite_step(m, ln, acc, n) ==
    LET sprite == from_bytes(m, n)
    IN  IF acc.done THEN acc
        ELSE IF ~on_line(m, sprite, ln) THEN acc
        ELSE IF sprite.x >= ScreenWidth \/ sprite.x = -8
        THEN [acc EXCEPT !.tile_count = @ + 1]
        ELSE IF sprite.x \in acc.x_values
        THEN [acc EXCEPT !.tile_count = @ + 1]
        ELSE [acc EXCEPT
                !.output = [x \in {sprite.x + k : k \in painted(m, sprite, ln)} |->
                              sprite_pixel(m, sprite,
                                 sprite_color(m, sprite, ln, x - sprite.x))] @@ @,
                !.tile_count = @ + 1,
                !.x_values = @ \cup {sprite.x},
                !.done = acc.tile_count + 1 >= 10,
                !.drawn = @ \cup {n},
                !.overflow = @ \/ sprite.x < 0]

\* the loop of draw_sprites over the OAM entries lo .. hi-1, in halves
RECURSIVE sprite_loop(_, _, _, _, _)
sprite_loop(m, ln, acc, lo, hi) ==
    IF hi = lo + 1
    THEN sprite_step(m, ln, acc, lo)
    ELSE LET mid == (lo + hi) \div 2
         IN  CHOOSE r \in {sprite_loop(m, ln, half, mid, hi) :
                              half \in {sprite_loop(m, ln, acc, lo, mid)}} : TRUE

\* draw_sprites
draw_sprites(m, ln) == sprite_loop(m, ln, NoSprites, 0, 40)

\* draw_window draws at this column: `line >= win_y` and
\* `index >= win_x as usize - 7`; with win_x below 7 the subtraction wraps to a
\* huge number in a build without overflow checks and no column is drawn
window_covers(m, ln, col) ==
    /\ ln >= Load(m.io, IoWY)
    /\ Load(m.io, IoWX) >= 7
    /\ col >= Load(m.io, IoWX) - 7

\* the color index draw_window fetches for a column it draws
window_color(m, col) ==
    LET y == m.window_counter
        x == col - Load(m.io, IoWX) + 7
        tile == Load(m.vram, window_tile_map(m) + (y \div 8) * 32 + (x \div 8))
    IN  tile_color(m, tile, y % 8, x % 8)

\* draw_window: the pixel of the window layer at a column
draw_window(m, ln, col) ==
    IF window_covers(m, ln, col)
    THEN Rgba(Shade(bg_palette(m), window_color(m, col)))
    ELSE Blank

\* `idx` of draw_scanline before it is cut to u16
bg_idx(ln, col, scx, scy) == (col + scx) + ((ln + scy) * 256)

\* the color index of the background at a column
bg_color(m, ln, col, scx, scy) ==
    LET idx == bg_idx(ln, col, scx, scy) % 65536
        y == idx \div 256
        x == idx % 256
        tile == Load(m.vram, bg_tile_map(m) + (y \div 8) * 32 + (x \div 8))
    IN  tile_color(m, tile, y % 8, x % 8)

\* the sum of the four bytes of a pixel, before `sum::<u8>()` cuts it to u8
Sum(px) == px[1] + px[2] + px[3] + px[4]

\* the body of the pixel loop of draw_scanline for one column: the pixel the
\* frame buffer holds afterwards, given the pixel prior it held before and the
\* pixels of the two layers (u8 and u16 arithmetic wrapping)
compose(m, prior, sprite, win, ln, col, scx, scy) ==
    LET pixel == IF sprite # Blank THEN sprite ELSE prior
        z == bg_color(m, ln, col, scx, scy)
    IN  IF sprite # Blank /\ pixel[4] = 255 THEN pixel
        ELSE IF ~get_bg_enable(m) THEN Rgba(0)
        ELSE IF Sum(win) % 256 # 0 /\ ~(pixel[4] = 128 /\ win[1] = 232) THEN win
        ELSE IF z = 0 /\ pixel[4] = 128 THEN [pixel EXCEPT ![4] = 255]
        ELSE Rgba(Shade(bg_palette(m), z))

\* with overflow checks the body panics where it reaches the sum of a window
\* pixel above 255, or the computation of idx with idx above 0xFFFF
compose_panics(m, prior, sprite, win, ln, col, scx, scy) ==
    LET pixel == IF sprite # Blank THEN sprite ELSE prior
    IN  IF sprite # Blank /\ pixel[4] = 255 THEN FALSE
        ELSE IF ~get_bg_enable(m) THEN FALSE
        ELSE IF Sum(win) > 255 THEN TRUE
        ELSE bg_idx(ln, col, scx, scy) > 65535

\* the layers draw_scanline composes: `sprites` is left zeroed without LCDC
\* bit 1 and `window` without LCDC bit 5
sprite_layer(m, ln) ==
    IF get_obj_enable(m) THEN draw_sprites(m, ln) ELSE NoSprites

window_layer(m, ln, col) ==
    IF get_window_enable(m) THEN draw_window(m, ln, col) ELSE Blank

\* draw_panics: with overflow checks, draw_scanline panics in draw_sprites
\* (a drawn sprite with negative x), in draw_window (`win_x as usize - 7` with
\* win_x below 7) or in its own pixel loop
draw_panics(m, row, scx, scy, ln, checks) ==
    /\ checks
    /\ \E layer \in {sprite_layer(m, ln)} :
          \/ layer.overflow
          \/ /\ get_window_enable(m)
             /\ ln >= Load(m.io, IoWY)
             /\ Load(m.io, IoWX) < 7
          \/ \E col \in Columns :
                compose_panics(m, row[col + 1], layer_at(layer.output, col),
                               window_layer(m, ln, col), ln, col, scx, scy)

\* draw_scanline: the row of the frame buffer after the call
draw_scanline(m, row, scx, scy, ln) ==
    CHOOSE r \in {[c \in 1 .. ScreenWidth |->
                     compose(m, row[c], layer_at(layer.output, c - 1),
                             window_layer(m, ln, c - 1), ln, c - 1, scx,
                             scy)] :
                  layer \in {sprite_layer(m, ln)}} : TRUE

\* SpecPpu: draw_scanline called on scenes the guest has set up, with guest
\* writes to LCDC and to the attributes of OAM entry 0 in between.  Tile 1 is
\* all color 3, tile 2 all color 1, tile 0 all color 0; the first tile of the
\* background map is bg and the first of the window map (0x9C00) is win.
SceneVram(bg, win) ==
    [k \in 16 .. 31 |-> 255]
    @@ [k \in 32 .. 47 |-> IF k % 2 = 0 THEN 255 ELSE 0]
    @@ (6144 :> bg) @@ (7168 :> win)

\* LCDC 0x93 (BG and sprites on, tiles at 0x8000), BGP = OBP0 = 0xE4,
\* OBP1 = 0x1B, the window at WX = 7, WY = 0
SceneIo ==
    (IoLCDC :> 147) @@ (IoBGP :> 228) @@ (IoOBP0 :> 228) @@ (IoOBP0 + 1 :> 27)
    @@ (IoWY :> 0) @@ (IoWX :> 7) @@ (IoSCX :> 0) @@ (IoSCY :> 0)

\* the OAM holding the entries <<y, x, tile, attrs>> of a layout, in order
OamOf(layout) ==
    [k \in 0 .. 4 * Len(layout) - 1 |-> layout[(k \div 4) + 1][(k % 4) + 1]]

\* n copies of a sprite
Copies(n, sprite) == [i \in 1 .. n |-> sprite]

OamLayouts ==
    { <<>>,
      << <<16, 8, 1, 0>> >>,
      << <<16, 8, 0, 0>> >>,
      << <<16, 8, 1, 0>>, <<16, 12, 1, 16>> >>,
      Copies(10, <<16, 0, 1, 0>>) \o << <<16, 8, 1, 0>> >>,
      Copies(10, <<16, 8, 1, 0>>) \o << <<16, 24, 1, 0>> >>,
      [i \in 1 .. 11 |-> <<16, 8 * i, 1, 0>>],
      << <<16, 4, 1, 0>> >> }

Scenes ==
    {[MmuNew EXCEPT !.vram = SceneVram(bg, win),
                    !.oam = OamOf(layout),
                    !.io = SceneIo @@ @] :
        bg \in {0, 2}, win \in {0, 2}, layout \in OamLayouts}

\* what the host's buffer may hold before the first frame: zeroes, a color of
\* the renderer, or a pixel of the host's own with alpha 128
Translucent == <<255, 0, 0, 128>>
PriorPixels == {Blank, Rgba(3), Translucent}
Row(px) == [c \in 1 .. ScreenWidth |-> px]

PpuLines == {0}

InitPpu ==
    /\ loc = "idle"
    /\ line = 0
    /\ ticks = 0
    /\ dt = 0
    /\ last = [op |-> OpNOP, imm |-> 0, ime |-> FALSE]
    /\ pc = 0
    /\ sp = 0
    /\ ime = FALSE
    /\ state = "Bootstrap"
    /\ a = 100
    /\ ret = FALSE
    /\ steps = 0
    /\ call = NoCall
    /\ regs = RegistersNew
    /\ hist = Started(0, 0, 100, RegistersNew)
    /\ mmu \in Scenes
    /\ \E px \in PriorPixels : frame = [ln \in PpuLines |-> Row(px)]
    /\ mapper = NoMapper

\* `ppu::draw_scanline(&self.mmu, frame, scx, scy, line)` with scx and scy read
\* as game_loop reads them; checks is whether the build has overflow checks
DrawScanline(ln, checks) ==
    /\ ~call.panic
    /\ LET scx == read_byte(mmu, 65347)
           scy == read_byte(mmu, 65346)
       IN  IF draw_panics(mmu, frame[ln], scx, scy, ln, checks)
           THEN /\ call' = [NoCall EXCEPT !.fn = "draw_scanline", !.value = ln,
                                          !.panic = TRUE]
                /\ UNCHANGED frame
           ELSE /\ call' = [NoCall EXCEPT !.fn = "draw_scanline", !.value = ln]
                /\ frame' = Store(frame, ln, draw_scanline(mmu, frame[ln], scx,
                                                          scy, ln))
    /\ UNCHANGED <<mapper, regs, hist, loc, line, ticks, dt, last, pc, sp, ime, state, a,
                   mmu, ret, steps>>

DrawScanlineCall ==
    \E ln \in PpuLines : \E checks \in BOOLEAN : DrawScanline(ln, checks)

\* the guest turns the background off (0x92), the window on with its map at
\* 0x9C00 (0xF3), or both back (0x93), and sets or clears the priority bit of
\* OAM entry 0
PpuWrites == {<<65344, 147>>, <<65344, 146>>, <<65344, 243>>,
              <<65027, 128>>, <<65027, 0>>}

PpuWriteCall == \E w \in PpuWrites : MmuWrite(w[1], w[2])

NextPpu == DrawScanlineCall \/ PpuWriteCall

SpecPpu == InitPpu /\ [][NextPpu]_vars

-----------------------------------------------------------------------------
(* SpecScroll: the end-of-line part of game_loop on the first ScrollHeight *)
(* lines of successive frames, the guest writing SCX, SCY and LCDC between *)
(* lines.  No sprites.  Tile 1 is all color 3; tile 3 has color 3 in its   *)
(* row 0 and color 0 below.  The background map holds tile 1 at (0, 0) and *)
(* tile 0 elsewhere, the window map (0x9C00) tile 3 at (0, 0).             *)

ScrollHeight == 2
ScrollLines == 0 .. ScrollHeight - 1

ScrollVram ==
    [k \in 16 .. 31 |-> 255] @@ (48 :> 255) @@ (49 :> 255)
    @@ (6144 :> 1) @@ (7168 :> 3)

\* LCDC 0x91: background on, window and sprites off, tiles at 0x8000
ScrollScene ==
    [MmuNew EXCEPT !.vram = ScrollVram,
                   !.io = (IoLCDC :> 145) @@ SceneIo @@ @]

\* what the guest has written to IE, STAT and LYC: nothing, the LYC interrupt
\* enabled in STAT only, or the STAT interrupt enabled in IE only
LycSetups == {<<0, 0, 0>>, <<0, 64, 1>>, <<2, 0, 1>>}

LycSetup(ie, stat, lyc) ==
    write_byte(write_byte(write_byte(ScrollScene, 65535, ie), 65345, stat),
               65349, lyc)

InitScroll ==
    /\ loc = "eol"
    /\ line = 0
    /\ ticks = 0
    /\ dt = 0
    /\ last = [op |-> OpNOP, imm |-> 0, ime |-> FALSE]
    /\ pc = 0
    /\ sp = 0
    /\ ime = FALSE
    /\ state = "Bootstrap"
    /\ a = 100
    /\ ret = FALSE
    /\ steps = 0
    /\ call = NoCall
    /\ regs = RegistersNew
    /\ hist = Started(0, 0, 100, RegistersNew)
    /\ mmu \in {LycSetup(w[1], w[2], w[3]) : w \in LycSetups}
    /\ frame = [ln \in ScrollLines |-> Row(Blank)]
    /\ mapper = NoMapper

\* whether draw_window is called and gets past `if line < win_y { return; }`
window_drawn(m, ln) == get_window_enable(m) /\ ln >= Load(m.io, IoWY)

\* game_loop after the while loop of `line`: draw_scanline, the LYC and
\* V-Blank tests and the write of LY, then the next line.  The trace keeps,
\* for each line of the frame so far, whether the window was drawn on it.
ScanLine(checks) ==
    /\ loc = "eol"
    /\ line \in ScrollLines
    /\ ~call.panic
    /\ LET scx == read_byte(mmu, 65347)
           scy == read_byte(mmu, 65346)
       IN  IF draw_panics(mmu, frame[line], scx, scy, line, checks)
           THEN /\ call' = [NoCall EXCEPT !.fn = "draw_scanline",
                                          !.value = line, !.panic = TRUE]
                /\ UNCHANGED <<frame, mmu, line, hist>>
           ELSE /\ call' = [NoCall EXCEPT !.fn = "draw_scanline",
                                          !.value = line]
                /\ frame' = Store(frame, line,
                                  draw_scanline(mmu, frame[line], scx, scy,
                                                line))
                /\ mmu' = line_end(mmu, line)
                /\ line' = line + 1
                /\ hist' = [hist EXCEPT
                              !.trace = Append(@, window_drawn(mmu, line))]
    /\ UNCHANGED <<mapper, regs, loc, ticks, dt, last, pc, sp, ime, state, a, ret,
                   steps>>

ScanLineCall == \E checks \in BOOLEAN : ScanLine(checks)

\* the lines of the frame below ScrollHeight (with IE = 0 they leave LY = 153
\* behind), the return of game_loop and its next call
NextFrameCall ==
    /\ loc = "eol"
    /\ line = ScrollHeight
    /\ ~call.panic
    /\ mmu' = write_byte(mmu, 65348, LinesPerFrame - 1)
    /\ line' = 0
    /\ hist' = [hist EXCEPT !.trace = <<>>]
    /\ call' = [NoCall EXCEPT !.fn = "game_loop"]
    /\ UNCHANGED <<mapper, regs, frame, loc, ticks, dt, last, pc, sp, ime, state, a,
                   ret, steps>>

\* the guest scrolls by (100, 7) or (100, 255), or back, and turns the window
\* on (0xF1) or off (0x91)
ScrollWrites == {<<65347, 0>>, <<65347, 100>>,
                 <<65346, 0>>, <<65346, 7>>, <<65346, 255>>,
                 <<65344, 145>>, <<65344, 241>>}

ScrollWriteCall == \E w \in ScrollWrites : MmuWrite(w[1], w[2])

NextScroll == ScanLineCall \/ NextFrameCall \/ ScrollWriteCall

SpecScroll == InitScroll /\ [][NextScroll]_vars

-----------------------------------------------------------------------------
(* Claims *)

\* the interrupts 0..4 that are set in both IE and IF
EnabledPending(m) == {k \in 0 .. 4 : pending(m, k)}

\* the boundary check pushed PC and jumped
Serviced == loc = "irq" /\ (sp' # sp \/ pc' # pc)

\* C1: at every instruction boundary of the frame driver, if IME is set and
\* some bit 0..4 is set in both IE and IF, the highest-priority such interrupt
\* (lowest index) is serviced: IME is cleared, only that bit of IF is cleared,
\* PC is pushed (SP decreases by 2, the word at the new SP is the old PC) and
\* PC becomes 0x40 + 8*index.
C1_ServiceHighestPriority ==
    [][(loc = "irq" /\ ime /\ EnabledPending(mmu) # {}) =>
          LET k == CHOOSE x \in EnabledPending(mmu) :
                       \A y \in EnabledPending(mmu) : x <= y
          IN  /\ ~ime'
              /\ read_byte(mmu', 65295) = ClearBit(read_byte(mmu, 65295), k)
              /\ sp' = sp - 2
              /\ read_word(mmu', sp') = pc
              /\ pc' = 64 + 8 * k]_vars

\* C2: the CPU loop of a scanline ends as soon as the instructions stepped in
\* it total 456 T-cycles, each step contributing 4 T-cycles per M-cycle it
\* returns: when the loop is left the T-cycles have reached 456 and had not
\* reached 456 before the last instruction.
C2_LineIs456TCycles ==
    loc = "eol" => /\ 4 * ticks >= TicksPerLine
                   /\ 4 * (ticks - dt) < TicksPerLine

\* C3: after every CPU step that returns dt M-cycles the internal timer
\* counter has advanced by dt M-cycles (4*dt units) before the next fetch
\* (a step that writes FF04 resets the counter and is left aside).
C3_TimerAdvancesPerStep ==
    [][(loc = "fetch" /\ loc' = "irq"
          /\ ~(last'.op = OpLDHwr /\ last'.imm = IoDIV)) =>
          mmu'.timer = (mmu.timer + 4 * dt') % 65536]_vars

\* C4: after HALT (opcode 0x76) has been executed, no further instruction is
\* fetched while (IE & IF & 0x1F) is zero.
C4_HaltStopsFetching ==
    [][(loc = "fetch" /\ last.op = OpHALT /\ steps > 0
          /\ EnabledPending(mmu) = {}) =>
          steps' = steps]_vars

\* C5: EI enables interrupts with a one-instruction delay: with an interrupt
\* pending and enabled and IME clear when EI is fetched, the interrupt is not
\* serviced at the boundary right after EI.
C5_EiDelayed ==
    [][(loc = "irq" /\ last.op = OpEI /\ ~last.ime
          /\ EnabledPending(mmu) # {}) =>
          ~Serviced]_vars

\* C6: an interrupt is serviced only at an instruction boundary, only while
\* IME is set and only for a bit set in both IE and IF; servicing leaves IME
\* clear, IME becomes set only by executing EI or RETI (so after a service no
\* further interrupt is serviced until one of them has run), and DI always
\* leaves IME clear.
C6_ServiceDiscipline ==
    [][/\ (loc # "fetch" /\ (sp' # sp \/ pc' # pc)) => loc = "irq"
       /\ Serviced => /\ ime
                      /\ ~ime'
                      /\ \E k \in EnabledPending(mmu) : pc' = 64 + 8 * k
       /\ (~ime /\ ime') => /\ loc = "fetch"
                            /\ loc' = "irq"
                            /\ last'.op \in {OpEI, OpRETI}
       /\ (loc = "fetch" /\ loc' = "irq" /\ last'.op = OpDI) => ~ime']_vars

\* C6 witness: V-Blank has been serviced at the boundary after an EI
C6_Witness ==
    /\ loc = "fetch"
    /\ last.op = OpEI
    /\ pc = 64
    /\ sp = StackTop - 2
    /\ ~ime
    /\ read_word(mmu, sp) > 0

\* C7: once the CPU loop of scanline 144 has finished, the V-Blank bit of IF
\* is set whatever the value of IE, and the end of no other scanline raises it.
C7_VBlankRaisedAtLine144 ==
    [][loc = "eol" =>
          IF line = VBlankLine
          THEN Bit(read_byte(mmu', 65295), 0) = 1
          ELSE Bit(read_byte(mmu', 65295), 0) = Bit(read_byte(mmu, 65295), 0)]_vars

\* C8: at every instruction boundary while the frame driver executes the
\* instructions of scanline L, a read of LY (FF44) returns L.
C8_LyIsCurrentLine ==
    loc \in {"fetch", "irq"} => read_byte(mmu, 65348) = line

\* C9: whenever a timer advance overflows TIMA (increment_timer reports it),
\* TIMA is reloaded with TMA and the timer bit (bit 2) of IF is set.
C9_OverflowReloadsAndRaises ==
    [][(loc' = "increment_timer" /\ steps' # steps /\ ret') =>
          /\ mmu'.io[IoTIMA] = mmu.io[IoTMA]
          /\ Bit(mmu'.io[IoIF], 2) = 1]_vars

\* C10: in every reachable state a read of DIV (FF04) returns the high byte
\* of the 16-bit internal timer counter.
C10_DivIsCounterHighByte ==
    read_byte(mmu, 65284) = Hi(mmu.timer)

\* addresses read in the claims about 0000-00FF, and about the echo range
\* E000-FDFF and the prohibited range FEA0-FEFF
BootAddrs == {0, 255}
DeadAddrs == {57344, 65023, 65184, 65279}

\* C11: for every byte V, immediately after write_byte(0xFF46, V) each OAM[i],
\* i in 0..0x9F, equals the value read_byte((V<<8)+i) had when the write
\* occurred, whatever the source page is (OAM itself, echo RAM, disabled
\* external RAM included).
C11_DmaCopiesSourcePage ==
    [][(call'.fn = "write_byte" /\ call'.address = 65350 /\ ~call'.panic) =>
          \A i \in 0 .. 159 :
              read_byte(mmu', 65024 + i) = read_byte(mmu, call'.value * 256 + i)]_vars

\* C11 witness: a DMA from page 0xC0 has copied a byte stored in work RAM
C11_Witness ==
    /\ call.fn = "write_byte"
    /\ call.address = 65350
    /\ call.value = 192
    /\ read_byte(mmu, 49152) = 17
    /\ read_byte(mmu, 65024) = 17

\* the last call wrote a nonzero value to FF50
WroteNonzeroFF50(c) == c.fn = "write_byte" /\ c.address = 65360 /\ c.value # 0

\* every read of 0000-00FF is served from the named area
BootReadsFrom(m, area) == \A ad \in BootAddrs : locate(m, ad).area = area

\* C12: reads of 0000-00FF return the bootstrap ROM while no nonzero value has
\* been written to FF50; from the first nonzero write on they return cartridge
\* ROM for ever, whatever is written to FF50 later (a write of 0 included).
C12_BootstrapGoneForGood ==
    /\ BootReadsFrom(mmu, "bootstrap") \/ call.panic
    /\ [][/\ WroteNonzeroFF50(call') => BootReadsFrom(mmu', "rom")
          /\ BootReadsFrom(mmu, "rom") => BootReadsFrom(mmu', "rom")
          /\ (BootReadsFrom(mmu, "bootstrap") /\ ~WroteNonzeroFF50(call'))
                => BootReadsFrom(mmu', "bootstrap")]_vars

\* C17: a write to E000-FDFF or FEA0-FEFF leaves the whole MMU state
\* unchanged, and reads of both ranges return 0xFF in every state.
C17_DeadRangesInert ==
    /\ [][(call'.fn = "write_byte" /\ call'.address \in DeadAddrs) =>
             mmu' = mmu]_vars
    /\ [](\A ad \in DeadAddrs : read_byte(mmu, ad) = 255)

\* C17 witness: work RAM and OAM hold data and the last call wrote to E000
C17_Witness ==
    /\ call.fn = "write_byte"
    /\ call.address = 57344
    /\ read_byte(mmu, 49152) = 17
    /\ read_byte(mmu, 65024) = 7

\* the 2-bit secondary bank register, kept in bits 6..5 of rom_bank
BANK2(m) == And8(m.rom_bank, 96) \div 32

\* the number of ROM banks the header of the loaded cartridge declares
DeclaredBanks(m) == file_banks(m.rom)

\* an MBC1 cartridge is loaded: the 7-bit bank register addresses at most 128
\* banks, ROM-size codes 0..6
Mbc1Codes == 0 .. 6
Mbc1Cart(m) == ~call.panic /\ m.rom.rom_code \in Mbc1Codes

\* C13: for MBC1 (cartridges of up to 128 banks), whenever BANK1/BANK2 writes
\* have left the combined 7-bit bank register at 0x00, 0x20, 0x40 or 0x60,
\* reads of 4000-7FFF come from bank 0x01, 0x21, 0x41 or 0x61 respectively,
\* modulo the declared number of ROM banks, never from bank 0x00/0x20/0x40/0x60.
C13_HighBankNeverZeroLow5 ==
    (Mbc1Cart(mmu) /\ mmu.rom_bank \in {0, 32, 64, 96}) =>
        \A ad \in {16384, 32767} :
            locate(mmu, ad) =
                Place("rom", (mmu.rom_bank + 1) % DeclaredBanks(mmu), ad - 16384)

\* addresses read in the claims about 0000-3FFF once the bootstrap is gone
\* (0000-00FF is served by the bootstrap image until then), and about A000-BFFF
LowAddrs(m) == {256, 16383} \cup (IF Load(m.io, 80) = 0 THEN {} ELSE BootAddrs)
EramAddrs == {40960, 49151}

\* the external RAM bank an access is said to use in the current mode
ClaimedRamBank(m) == IF m.rom_mode = 1 /\ m.ram_size >= 4 THEN BANK2(m) ELSE 0

\* C14: on an MBC1 cartridge, after any sequence of mapper-register writes
\* (and once FF50 has handed 0000-00FF to the cartridge), in mode 0 reads of
\* 0000-3FFF come from ROM bank 0 and external RAM accesses use RAM bank 0; in
\* mode 1 reads of 0000-3FFF come from bank (BANK2 << 5) modulo the declared
\* ROM bank count and, with at least 4 RAM banks, external RAM reads and
\* writes use RAM bank BANK2.
C14_BankingMode ==
    /\ [](Mbc1Cart(mmu) =>
            /\ \A ad \in LowAddrs(mmu) :
                  locate(mmu, ad) =
                      Place("rom",
                            IF mmu.rom_mode = 0 THEN 0
                            ELSE (BANK2(mmu) * 32) % DeclaredBanks(mmu),
                            ad)
            /\ (mmu.ram_enable /\ (mmu.rom_mode = 0 \/ mmu.ram_size >= 4)) =>
                  \A ad \in EramAddrs :
                      locate(mmu, ad) =
                          Place("eram", ClaimedRamBank(mmu), ad - 40960))
    /\ [][(call'.fn = "write_byte" /\ call'.address \in EramAddrs
              /\ Mbc1Cart(mmu)
              /\ mmu.ram_enable /\ (mmu.rom_mode = 0 \/ mmu.ram_size >= 4)) =>
             mmu'.eram = Store(mmu.eram,
                               <<ClaimedRamBank(mmu), call'.address - 40960>>,
                               call'.value)]_vars

\* C14 witness: a 128-bank cartridge with 4 RAM banks in mode 1 with BANK2 = 2:
\* 0100 is read from bank 0x40 and the last call stored into RAM bank 2
C14_Witness ==
    /\ mmu.rom.rom_code = 6
    /\ mmu.rom_mode = 1
    /\ BANK2(mmu) = 2
    /\ locate(mmu, 256) = Place("rom", 64, 256)
    /\ call.fn = "write_byte"
    /\ call.address = 40960
    /\ Load(mmu.eram, <<2, 0>>) = 85
    /\ read_byte(mmu, 40960) = 85

\* the header of the loaded cartridge declares a nonzero RAM size
DeclaresRam(m) == ram_size_of(m.rom.ram_code) > 0

\* the last call wrote to an address of the set
Wrote(c, addresses) == c.fn = "write_byte" /\ c.address \in addresses

\* C15: external RAM is enabled exactly when the most recent write to
\* 0000-1FFF had low nibble 0xA and the cartridge declares a nonzero RAM size
\* (it is disabled before the first such write); whenever it is disabled,
\* reads of A000-BFFF return 0xFF and writes to A000-BFFF change no byte of
\* external RAM.
C15_RamEnableGate ==
    /\ ~mmu.ram_enable
    /\ [][IF Wrote(call', 0 .. 8191)
          THEN mmu'.ram_enable <=> (call'.value % 16 = 10 /\ DeclaresRam(mmu))
          ELSE mmu'.ram_enable <=> mmu.ram_enable]_vars
    /\ [](~mmu.ram_enable => \A ad \in EramAddrs : read_byte(mmu, ad) = 255)
    /\ [][(Wrote(call', EramAddrs) /\ ~mmu.ram_enable) => mmu'.eram = mmu.eram]_vars

\* C15 witness: external RAM holds a byte stored while it was enabled, it is
\* disabled now, the last call wrote to A000 and a read of A000 returns 0xFF
C15_Witness ==
    /\ DeclaresRam(mmu)
    /\ ~mmu.ram_enable
    /\ Load(mmu.eram, <<0, 0>>) = 85
    /\ Wrote(call, {40960})
    /\ read_byte(mmu, 40960) = 255

\* addresses read in the claim about failures: both ends of each ROM window
\* and of external RAM
ProbeAddrs == {0, 255, 256, 16383, 16384, 32767, 40960, 49151}

\* C16: for a cartridge whose file holds the banks its header declares
\* (ROM-size codes up to 8), for every reachable value of the mapper registers
\* and every address, read_byte and write_byte complete and return a defined
\* value: no bank index out of range, no division by a zero bank count.
C16_MmuNeverFails ==
    call.fn # "load_game" =>
        /\ ~call.panic
        /\ \A ad \in ProbeAddrs : read_byte(mmu, ad) # Panic

\* the buttons read on bits 0..3 when selector bit 4, resp. bit 5, is 0
DirButtons == <<"right", "left", "up", "down">>
ActButtons == <<"a", "b", "select", "start">>

\* C18: after a write of v to FF00, bits 5-4 of the joypad register equal
\* bits 5-4 of v, and bit k of its low nibble is 0 exactly when a button
\* mapped to bit k in a selected group is pressed (bit 4 = 0 selects
\* Right/Left/Up/Down, bit 5 = 0 selects A/B/Select/Start): with both groups
\* selected the bit is 0 when either button is pressed, with none selected the
\* low nibble is 0xF.
C18_JoypadRegister ==
    [][Wrote(call', {65280}) =>
          LET r == read_byte(mmu', 65280)
              v == call'.value
              j == mmu'.joypad
          IN  /\ Bit(r, 4) = Bit(v, 4)
              /\ Bit(r, 5) = Bit(v, 5)
              /\ \A k \in 0 .. 3 :
                    Bit(r, k) = 0 <=> \/ Bit(v, 4) = 0 /\ j[DirButtons[k + 1]]
                                      \/ Bit(v, 5) = 0 /\ j[ActButtons[k + 1]]]_vars

\* C19: a joypad event sets bit 4 of IF exactly when its button goes from
\* released to pressed; a press event for a button already pressed and any
\* release event leave IF unchanged.
C19_JoypadInterruptOnNewPress ==
    [][call'.fn = "joypad" =>
          IF call'.value = 1 /\ ~mmu.joypad[call'.button]
          THEN read_byte(mmu', 65295) = Or8(read_byte(mmu, 65295), 16)
          ELSE read_byte(mmu', 65295) = read_byte(mmu, 65295)]_vars

\* C20: in every reachable state, right after a guest write to FF0F and after
\* an interrupt service included, a read of IF (FF0F) has bits 7..5 set.
C20_IfUpperBitsReadOne ==
    \A k \in 5 .. 7 : Bit(read_byte(mmu, 65295), k) = 1

\* the addresses of work RAM and of high RAM
WorkRam == 49152 .. 57343
HighRam == 65408 .. 65534

\* the two bytes a push from sp writes are in work RAM or in high RAM
StackInRam(s) == {s - 2, s - 1} \subseteq WorkRam \cup HighRam

\* the four flags of a register file
FlagsOf(r) == <<r.zero, r.subtract, r.half_carry, r.carry>>

\* byte f holds Z in bit 7, N in bit 6, HC in bit 5, C in bit 4 of the
\* register file r, and a zero low nibble
PackedFlags(f, r) ==
    /\ Bit(f, 7) = AsU8(r.zero)
    /\ Bit(f, 6) = AsU8(r.subtract)
    /\ Bit(f, 5) = AsU8(r.half_carry)
    /\ Bit(f, 4) = AsU8(r.carry)
    /\ f % 16 = 0

\* what C21 promises when the program `push af; pop af` started at sp0
PushPopAf(o) ==
    /\ hist.trace = <<PushAf>> =>
          /\ sp = o.sp - 2
          /\ PackedFlags(read_byte(mmu, sp), o.regs)
          /\ read_byte(mmu, sp + 1) = o.a
    /\ hist.trace = <<PushAf, PopAf>> =>
          /\ a = o.a
          /\ FlagsOf(regs) = FlagsOf(o.regs)
          /\ sp = o.sp
          /\ PackedFlags(read_byte(mmu, sp - 2), o.regs)

\* C21 as stated: in every reachable state PUSH AF followed by POP AF
\* restores A, the four flags and SP, and the F byte on the stack has Z, N,
\* HC, C in bits 7..4 and a zero low nibble.
C21_PushPopAfAnywhere == PushPopAf(hist.origin)

\* C21, amended: with the two bytes below SP in work RAM or high RAM, PUSH AF
\* followed by POP AF restores A, the four flags and SP, and the F byte written
\* to the stack has Z in bit 7, N in bit 6, HC in bit 5, C in bit 4 and a zero
\* low nibble.
C21_PushPopAfRestores == StackInRam(hist.origin.sp) => PushPopAf(hist.origin)

\* a `push af; pop af` that ran on a RAM stack with flags and A that all differ
\* from Registers::new
C21_Witness ==
    /\ hist.trace = <<PushAf, PopAf>>
    /\ StackInRam(hist.origin.sp)
    /\ hist.origin.a = 255
    /\ FlagsOf(hist.origin.regs) = <<TRUE, FALSE, TRUE, TRUE>>
    /\ a = 255

\* C22: CALL nn executed at address p with the stack in writable RAM leaves
\* SP two lower, the word p+3 at the new SP and PC = nn; a RET executed next
\* sets PC to p+3 and SP to its value before the CALL, and the pushed word is
\* still in memory below SP.
C22_CallRetRoundTrip ==
    LET o == hist.origin
    IN  StackInRam(o.sp) =>
          \A nn \in CallTargets :
             /\ hist.trace = <<Call(nn)>> =>
                   /\ sp = o.sp - 2
                   /\ read_word(mmu, sp) = o.pc + 3
                   /\ pc = nn
             /\ hist.trace = <<Call(nn), Ret>> =>
                   /\ pc = o.pc + 3
                   /\ sp = o.sp
                   /\ read_word(mmu, sp - 2) = o.pc + 3

\* the scenario of C22: SP=0xFFFE, CALL at 0x0103 to 0x0200, then RET
C22_Witness ==
    /\ hist.trace = <<Call(512), Ret>>
    /\ hist.origin.sp = 65534
    /\ hist.origin.pc = 259
    /\ pc = 262
    /\ sp = 65534
    /\ read_word(mmu, 65532) = 262

\* packed BCD: both nibbles are decimal digits; the number a packed-BCD byte
\* stands for, and the packed-BCD byte of a number below 100
IsBcd(x) == x % 16 <= 9 /\ x \div 16 <= 9
FromBcd(x) == 10 * (x \div 16) + (x % 16)
ToBcd(n) == 16 * (n \div 10) + (n % 10)

\* C23: for packed-BCD bytes a and b, ADD A,b on A=a followed by DAA leaves in
\* A the packed BCD of (a+b) mod 100, with C set iff a+b >= 100, Z set iff the
\* result byte is 0, and HC clear.
C23_AddDaaIsBcdSum ==
    LET o == hist.origin
        sum == FromBcd(o.a) + FromBcd(o.regs.b)
    IN  (hist.trace = <<[op |-> AddOf(0), imm |-> 0], Daa>>
         /\ IsBcd(o.a) /\ IsBcd(o.regs.b)) =>
           /\ a = ToBcd(sum % 100)
           /\ regs.carry <=> sum >= 100
           /\ regs.zero <=> a = 0
           /\ ~regs.half_carry

\* the instance of C23: 0x45 + 0x38 gives A=0x83 with Z=0, N=0, HC=0, C=0
C23_Witness ==
    /\ hist.trace = <<[op |-> AddOf(0), imm |-> 0], Daa>>
    /\ hist.origin.a = 69
    /\ hist.origin.regs.b = 56
    /\ a = 131
    /\ FlagsOf(regs) = <<FALSE, FALSE, FALSE, FALSE>>

\* the program `add a, b; sub a, b` has run from a state with C clear
AddSubRan ==
    /\ hist.trace = <<[op |-> AddOf(0), imm |-> 0], [op |-> SubOf(0), imm |-> 0]>>
    /\ ~hist.origin.regs.carry

\* C24 as stated: for all bytes a and b, starting with A=a and C=0, the
\* sequence ADD A,b; SUB A,b leaves A equal to a with N=1 and C=0.
C24_AddSubClearsCarry ==
    AddSubRan => a = hist.origin.a /\ regs.subtract /\ ~regs.carry

\* C24, amended: for all bytes a and b, starting with A=a and C=0, the
\* sequence ADD A,b; SUB A,b leaves A equal to a with N=1, and C set exactly
\* when a+b exceeds 255 (the subtraction borrows what the addition carried).
C24_AddSubRestoresA ==
    AddSubRan =>
       /\ a = hist.origin.a
       /\ regs.subtract
       /\ regs.carry <=> hist.origin.a + hist.origin.regs.b > 255

\* an `add a, b; sub a, b` whose addition carried: 200 + 100
C24_Witness ==
    /\ AddSubRan
    /\ hist.origin.a = 200
    /\ hist.origin.regs.b = 100
    /\ a = 200
    /\ regs.carry

\* the CPU registers of the current state, as a record get_r8 reads
Now == [a |-> a, regs |-> regs]

\* C25 as stated: for every register operand r and every byte, INC r followed
\* by DEC r restores the byte, C is unchanged by both instructions and N ends
\* equal to its value before the INC (Z and HC may differ).
C25_IncDecRestoresN ==
    \A k \in R8Regs :
       /\ hist.trace = <<Inc(k)>> => regs.carry = hist.origin.regs.carry
       /\ hist.trace = <<Inc(k), Dec(k)>> =>
             /\ get_r8(Now, k) = get_r8(hist.origin, k)
             /\ regs.carry = hist.origin.regs.carry
             /\ regs.subtract = hist.origin.regs.subtract

\* C25, amended: for every register operand r and every byte, INC r followed
\* by DEC r restores the byte and C is unchanged by both instructions; N is
\* clear after the INC and set after the DEC, whatever it was before.
C25_IncDecRestoresByte ==
    \A k \in R8Regs :
       /\ hist.trace = <<Inc(k)>> =>
             /\ get_r8(Now, k) = (get_r8(hist.origin, k) + 1) % 256
             /\ regs.carry = hist.origin.regs.carry
             /\ ~regs.subtract
       /\ hist.trace = <<Inc(k), Dec(k)>> =>
             /\ get_r8(Now, k) = get_r8(hist.origin, k)
             /\ regs.carry = hist.origin.regs.carry
             /\ regs.subtract

\* `inc e; dec e` over the wrap 0xFF -> 0x00 -> 0xFF, entered with C set and N
\* clear
C25_Witness ==
    /\ hist.trace = <<Inc(3), Dec(3)>>
    /\ hist.origin.regs.e = 255
    /\ hist.origin.regs.carry
    /\ ~hist.origin.regs.subtract
    /\ regs.e = 255
    /\ regs.carry
    /\ regs.subtract

\* C26 as stated: for every byte b and bit index i, SET i then RES i on the
\* same operand leaves the operand equal to b, and neither instruction changes
\* a flag.
C26_SetResIsIdentity ==
    \A i \in BitIndexes : \A k \in R8Regs :
       /\ hist.trace = <<Set(i, k)>> => FlagsOf(regs) = FlagsOf(hist.origin.regs)
       /\ hist.trace = <<Set(i, k), Res(i, k)>> =>
             /\ get_r8(Now, k) = get_r8(hist.origin, k)
             /\ FlagsOf(regs) = FlagsOf(hist.origin.regs)

\* C26, amended: for every byte b and bit index i, SET i then RES i on the
\* same operand leaves the operand equal to b with bit i cleared (equal to b
\* exactly when bit i of b was clear), and neither instruction changes a flag.
C26_SetResClearsBit ==
    \A i \in BitIndexes : \A k \in R8Regs :
       /\ hist.trace = <<Set(i, k)>> =>
             /\ get_r8(Now, k) = Or8(get_r8(hist.origin, k), 2 ^ i)
             /\ FlagsOf(regs) = FlagsOf(hist.origin.regs)
       /\ hist.trace = <<Set(i, k), Res(i, k)>> =>
             /\ get_r8(Now, k) = ClearBit(get_r8(hist.origin, k), i)
             /\ FlagsOf(regs) = FlagsOf(hist.origin.regs)

\* `set 7, a; res 7, a` on A = 0xFF with Z and C set: A ends 0x7F
C26_Witness ==
    /\ hist.trace = <<Set(7, 7), Res(7, 7)>>
    /\ hist.origin.a = 255
    /\ FlagsOf(hist.origin.regs) = <<TRUE, FALSE, FALSE, TRUE>>
    /\ a = 127
    /\ FlagsOf(regs) = <<TRUE, FALSE, FALSE, TRUE>>

\* draw_scanline has just returned for line ln
Drew(ln) == call.fn = "draw_scanline" /\ call.value = ln /\ ~call.panic

\* the line a call of draw_scanline for ln leaves when the buffer held px
Rendered(ln, px) ==
    draw_scanline(mmu, Row(px), read_byte(mmu, 65347), read_byte(mmu, 65346), ln)

\* C27: the 160 pixels draw_scanline leaves for a line are a function of the
\* MMU state and the line index alone: they are the pixels the call leaves
\* from any other content of the frame buffer (so a second call changes
\* nothing).
C27_ScanlineIsPure ==
    \A ln \in PpuLines :
       Drew(ln) => \A px \in PriorPixels : frame[ln] = Rendered(ln, px)

\* OAM entry n writes a pixel at column col of line ln when it is drawn
Covers(m, n, ln, col) == col - from_bytes(m, n).x \in painted(m, from_bytes(m, n), ln)

\* the color of the palette of OAM entry n for its pixel at column col
SpriteShown(m, n, ln, col) ==
    LET sprite == from_bytes(m, n)
    IN  Rgba(Shade(obj_palette(m, sprite.palette),
                   sprite_color(m, sprite, ln, col - sprite.x)))

\* the color index under the sprites at a column: that of the window where
\* the window is drawn, of the background elsewhere, 0 with LCDC bit 0 clear
Under(m, ln, col) ==
    IF ~get_bg_enable(m) THEN 0
    ELSE IF get_window_enable(m) /\ window_covers(m, ln, col)
    THEN window_color(m, col)
    ELSE bg_color(m, ln, col, read_byte(m, 65347), read_byte(m, 65346))

UnderPixel(m, ln, col) ==
    IF ~get_bg_enable(m) THEN Rgba(0)
    ELSE Rgba(Shade(bg_palette(m), Under(m, ln, col)))

\* C28: at a column where one drawn sprite has a pixel of color index 1..3,
\* the pixel shown is the sprite's when its attribute bit 7 is clear or the
\* background/window color index there is 0, and the background/window pixel
\* otherwise; where no sprite has such a pixel the background/window pixel is
\* shown.  (Stated of lines whose pixels do not depend on the buffer's earlier
\* content.)
C28_SpritePriority ==
    \A ln \in PpuLines :
       (Drew(ln) /\ frame[ln] = Rendered(ln, Blank)) =>
          \A layer \in {sprite_layer(mmu, ln)} : \A col \in Columns :
             LET cs == {n \in layer.drawn : Covers(mmu, n, ln, col)}
                 shown == frame[ln][col + 1]
             IN  /\ cs = {} => shown = UnderPixel(mmu, ln, col)
                 /\ \A n \in cs :
                       cs = {n} =>
                          shown = IF from_bytes(mmu, n).priority
                                     /\ Under(mmu, ln, col) # 0
                                  THEN UnderPixel(mmu, ln, col)
                                  ELSE SpriteShown(mmu, n, ln, col)

\* C29: on a scanline a sprite is drawn only if fewer than 10 OAM entries
\* before it pass the on-scanline filter, whether or not those entries are
\* off-screen horizontally or share their X with another sprite.
C29_TenSpritesPerLine ==
    \A ln \in PpuLines :
       Drew(ln) =>
          \A n \in sprite_layer(mmu, ln).drawn :
             Cardinality({k \in 0 .. n - 1 :
                             on_line(mmu, from_bytes(mmu, k), ln)}) < 10

\* C30: at a column where two or more drawn sprites (of different X, none
\* behind the background) have a pixel of color index 1..3, the pixel shown is
\* that of the sprite with the lowest OAM index.
C30_LowestOamIndexOnTop ==
    \A ln \in PpuLines :
       Drew(ln) =>
          \A layer \in {sprite_layer(mmu, ln)} : \A col \in Columns :
             LET cs == {n \in layer.drawn : Covers(mmu, n, ln, col)}
                 top == CHOOSE n \in cs : \A k \in cs : n <= k
             IN  (Cardinality(cs) >= 2
                  /\ \A n \in cs : ~from_bytes(mmu, n).priority) =>
                    frame[ln][col + 1] = SpriteShown(mmu, top, ln, col)

\* the color index of the background-map pixel at a coordinate
map_color(m, x, y) ==
    tile_color(m, Load(m.vram, bg_tile_map(m) + (y \div 8) * 32 + (x \div 8)),
               y % 8, x % 8)

\* the line game_loop has just drawn
Scanned == call.fn = "draw_scanline"

\* C31: when game_loop comes to draw a line the draw does not fail, and where
\* neither window nor sprite covers the background each column x of line y
\* shows the background-map pixel at ((x + SCX) mod 256, (y + SCY) mod 256)
C31_BgAxesWrapIndependently ==
    Scanned =>
        /\ ~call.panic
        /\ get_bg_enable(mmu) /\ ~get_window_enable(mmu) =>
              \A col \in Columns :
                 frame[call.value][col + 1]
                 = Rgba(Shade(bg_palette(mmu),
                              map_color(mmu,
                                        (col + Load(mmu.io, IoSCX)) % 256,
                                        (call.value + Load(mmu.io, IoSCY))
                                        % 256)))

\* the number of lines, among the first n of the current frame, on which the
\* window was drawn
WindowLines(n) == Cardinality({k \in 1 .. n : hist.trace[k]})

\* the pixel of row `row` of the window at its leftmost column
WindowRowPixel(m, row) ==
    Rgba(Shade(bg_palette(m),
               tile_color(m, Load(m.vram, window_tile_map(m)
                                          + (row \div 8) * 32),
                          row % 8, 0)))

\* C32: the window counter is 0 when a frame starts; after each line it is the
\* number of lines of the frame on which the window was drawn; and a line on
\* which the window is drawn shows the window row numbered by the lines the
\* window was drawn on before it in the frame.
C32_WindowCounterCountsWindowLines ==
    /\ call.fn = "game_loop" => mmu.window_counter = 0
    /\ Scanned /\ ~call.panic =>
          /\ mmu.window_counter = WindowLines(Len(hist.trace))
          /\ hist.trace[Len(hist.trace)] /\ Load(mmu.io, IoWX) = 7 =>
                frame[call.value][1]
                = WindowRowPixel(mmu, WindowLines(Len(hist.trace) - 1))

\* C33: when game_loop has finished line L (LY = L), bit 2 of STAT is 1 iff
\* L = LYC, and bit 1 of IF has been set if L = LYC and bit 6 of STAT is set,
\* and is as it was before otherwise, whatever IE holds.
C33_LycMatchAndStatInterrupt ==
    [][(loc = "eol" /\ call'.fn = "draw_scanline" /\ ~call'.panic) =>
          LET stat == read_byte(mmu', 65345)
              match == read_byte(mmu', 65348) = read_byte(mmu', 65349)
          IN  /\ read_byte(mmu', 65348) = line
              /\ Bit(stat, 2) = IF match THEN 1 ELSE 0
              /\ Bit(read_byte(mmu', 65295), 1)
                 = IF match /\ Bit(stat, 6) = 1 THEN 1
                   ELSE Bit(read_byte(mmu, 65295), 1)]_vars

\* the number of 1-to-0 transitions of bit sh - 1 of a 16-bit counter that
\* starts at old and is incremented `units` times
FallingEdges(old, units, sh) ==
    ((old + units) \div (2 ^ sh)) - (old \div (2 ^ sh))

\* C34: increment_timer(n) advances the counter by 4n modulo 2^16; with TAC
\* bit 2 set TIMA goes up by the number of 1-to-0 transitions of the selected
\* counter bit among the 4n increments (advances that overflow TIMA left
\* aside), and with TAC bit 2 clear TIMA is unchanged.
C34_TimaCountsFallingEdges ==
    [][(loc' = "increment_timer" /\ steps' # steps) =>
          LET tac == mmu.io[IoTAC]
              k == FallingEdges(mmu.timer, 4 * dt', timer_shift(tac))
          IN  /\ mmu'.timer = (mmu.timer + 4 * dt') % 65536
              /\ IF Bit(tac, 2) = 1
                 THEN mmu.io[IoTIMA] + k < 256 =>
                         mmu'.io[IoTIMA] = mmu.io[IoTIMA] + k
                 ELSE mmu'.io[IoTIMA] = mmu.io[IoTIMA]]_vars

\* the word a push of the run writes: the return address of CALL and RST, AF,
\* or PC for an interrupt
PushedWord(o, i) ==
    CASE i.op = OpCALL   -> U16(o.pc + 3)
      [] i.op = OpRST    -> U16(o.pc + 1)
      [] i.op = OpPUSHAF -> o.a * 256 + to_u8(o.regs)
      [] OTHER           -> o.pc

IsPush(i) == i.op \in {OpCALL, OpRST, OpPUSHAF} \/ i.op >= 256

\* C35: a push or a pop never fails, whatever SP and PC are, and a push leaves
\* SP = (SP - 2) mod 2^16 with the low byte of the pushed word written at that
\* address and the high byte at the next address modulo 2^16.
C35_StackWrapsWithoutError ==
    [][(Len(hist.trace) = 0 /\ Len(hist'.trace) = 1) =>
          LET o == hist.origin
              i == hist'.trace[1]
              w == PushedWord(o, i)
              m == IF i.op >= 256
                   THEN write_byte(mmu, 65295,
                                   ClearBit(read_byte(mmu, 65295), i.op - 256))
                   ELSE mmu
          IN  /\ ~call'.panic
              /\ IsPush(i) =>
                    /\ sp' = U16(o.sp - 2)
                    /\ mmu' = write_byte(write_byte(m, sp', Lo(w)),
                                         U16(sp' + 1), Hi(w))]_vars

\* C36: `ldh a, [imm8]` loads A with what Mmu::read_byte returns for
\* 0xFF00 + imm8, and so with what `ld a, (c)` loads in the same state when C
\* holds imm8; for imm8 = 0 that is the joypad register.
C36_LdhReadsTheMmu ==
    [][(call'.fn = "step" /\ last'.op = OpLDHrd) =>
          /\ a' = read_byte(mmu, 65280 + last'.imm)
          /\ regs.c = last'.imm =>
                a' = step([op |-> OpLDAC, imm |-> 0]).a]_vars

\* C37: after `add sp, e8` SP is (SP + e8) mod 2^16 and HL is untouched;
\* after `ld hl, sp + e8` HL is that same value and SP is untouched; after
\* either one Z = 0, N = 0, HC is the carry out of bit 3 and C the carry out
\* of bit 7 of SP's low byte plus the byte e8.
C37_AddSpAndLdHlSpAgree ==
    (Len(hist.trace) = 1 /\ hist.trace[1].op \in {OpADDSP, OpLDHLSP}) =>
        LET o == hist.origin
            e == hist.trace[1].imm
            sum == (o.sp + (IF e < 128 THEN e ELSE e - 256)) % 65536
        IN  /\ ~regs.zero
            /\ ~regs.subtract
            /\ regs.half_carry = ((o.sp % 16) + (e % 16) >= 16)
            /\ regs.carry = ((o.sp % 256) + e >= 256)
            /\ IF hist.trace[1].op = OpADDSP
               THEN /\ sp = sum
                    /\ regs.h = o.regs.h
                    /\ regs.l = o.regs.l
               ELSE /\ sp = o.sp
                    /\ regs.h * 256 + regs.l = sum

\* C37: `ld hl, sp + 0xFE` at SP = 1 has run: HL = 0xFFFF, no carry
C37_Witness ==
    /\ Len(hist.trace) = 1
    /\ hist.trace[1] = LdHlSp(254)
    /\ hist.origin.sp = 1
    /\ regs.h = 255 /\ regs.l = 255
    /\ ~regs.carry /\ ~regs.half_carry

\* whether a jump is taken under flags f
Taken(i, f) ==
    i.op \in {OpJR, OpJP}
    \/ ((IsJrCond(i.op) \/ IsJpCond(i.op)) /\ get_condition(f, CondOf(i.op)))

\* C38: a jump does not fail; JR and a taken JR cc return 3 M-cycles and set
\* PC to (PC + 2 + e8) mod 2^16; JP and a taken JP cc return 4 and set PC to
\* nn; an untaken JR cc returns 2 and an untaken JP cc 3, with PC past the
\* instruction and SP and the flags as they were.
C38_BranchCostAndTarget ==
    [][(Len(hist.trace) = 0 /\ Len(hist'.trace) = 1
          /\ (hist'.trace[1].op \in {OpJR, OpJP}
                \/ IsJrCond(hist'.trace[1].op)
                \/ IsJpCond(hist'.trace[1].op))) =>
          LET i == hist'.trace[1]
              rel == i.op = OpJR \/ IsJrCond(i.op)
              e == IF i.imm < 128 THEN i.imm ELSE i.imm - 256
          IN  /\ ~call'.panic
              /\ IF Taken(i, regs)
                 THEN /\ dt' = IF rel THEN 3 ELSE 4
                      /\ pc' = IF rel THEN (pc + 2 + e) % 65536 ELSE i.imm
                 ELSE /\ dt' = IF rel THEN 2 ELSE 3
                      /\ pc' = (pc + (IF rel THEN 2 ELSE 3)) % 65536
              /\ sp' = sp
              /\ regs' = regs]_vars

\* the loads and stores of the statement, by form
RegisterLoads == {n \in 64 .. 127 : IsLdR8R8(n)} \cup {OpHALT}
IndirectLoads == {n \in 0 .. 63 : IsLdMemA(n) \/ IsLdAMem(n)}
                    \cup {OpLDCA, OpLDAC}
Imm8Loads == {n \in 0 .. 63 : IsLdR8Imm8(n)}
Imm16Loads == {n \in 0 .. 63 : IsLdR16Imm16(n)}
AllLoads == RegisterLoads \cup IndirectLoads \cup Imm8Loads \cup Imm16Loads
               \cup {OpLDHwr, OpLDHrd, OpLDmA, OpLDAm, OpLDmSP}

\* a single load has run
Loaded == Len(hist.trace) = 1 /\ hist.trace[1].op \in AllLoads

C40_MapperAndMmuAgree ==
    call.fn = "write_register" =>
        /\ mapper.bank0 = low_bank(mmu)
        /\ mapper.bank1 = high_bank(mmu)
        /\ mapper.eram = eram_selected(mmu)

=========================================================================
